---------------------------- MODULE Spec2Model ----------------------------
(***************************************************************************)
(* A model of ducktape's interpretation pipeline: the security validator,  *)
(* the response cache, the natural-language synthesizer with its           *)
(* enhancement chain, and the application's routing of a line to the       *)
(* command processor.                                                      *)
(*                                                                         *)
(* Texts are TLA+ strings; a character is a string of length 1 and         *)
(* SubSeq(s, i, j) is the Rust slice &s[i-1..j].                           *)
(***************************************************************************)
EXTENDS Integers, Sequences, FiniteSets, TLC

VARIABLES
    cmd,        \* the command text handed to a pure text operation
    orig,       \* the user's original natural-language input
    out,        \* what the operation applied to (cmd, orig) returned
    cache,      \* RESPONSE_CACHE: its entries, the most recently used first
    hist,       \* history of the cache calls: what was stored, and when
    last,       \* the last cache call and what it returned
    pc,         \* where the running parse_input call stands
    nl,         \* the locals of that call, and what it did so far
    app         \* the Application: its configuration, and its last request

pureVars == <<cmd, orig, out>>
cacheVars == <<cache, hist, last>>
nlVars == <<pc, nl>>
appVars == <<app>>
vars == <<cmd, orig, out, cache, hist, last, pc, nl, app>>

\* no parse_input call has been made
NoCall == [n |-> 0]
NlIdle == pc = "idle" /\ nl = NoCall

\* no Application has been constructed
NoApp == [n |-> 0]
AppIdle == app = NoApp

NoOut == [op |-> "none"]

\* Option<T>
None == <<>>
Some(v) == <<v>>

(***************************************************************************)
(* str: the methods of Rust's str the code uses.                           *)
(***************************************************************************)
\* the character at position i, "" outside the text
Char(s, i) == IF i >= 1 /\ i <= Len(s) THEN SubSeq(s, i, i) ELSE ""

\* s[i-1..] : the text from position i on
From(s, i) == IF i > Len(s) THEN "" ELSE SubSeq(s, i, Len(s))

\* &s[..i-1] : the text before position i
Before(s, i) == IF i <= 1 THEN "" ELSE SubSeq(s, 1, i - 1)

\* p occurs in s at position i
At(s, i, p) == i >= 1 /\ i + Len(p) - 1 <= Len(s) /\ SubSeq(s, i, i + Len(p) - 1) = p

\* str::contains
Contains(s, p) == \E i \in 1..(Len(s) - Len(p) + 1) : At(s, i, p)

\* str::find : the position of the first occurrence, 0 for None
Find(s, p) ==
    IF Contains(s, p)
    THEN CHOOSE i \in 1..(Len(s) - Len(p) + 1) :
             At(s, i, p) /\ \A j \in 1..(i - 1) : ~At(s, j, p)
    ELSE 0

StartsWith(s, p) == At(s, 1, p)

IsDigit(c) == c \in {"0", "1", "2", "3", "4", "5", "6", "7", "8", "9"}

IsSpace(c) == c \in {" ", "\t", "\n", "\r", "\f"}

\* the end of the longest run of digits that starts at position i (\d+,
\* greedy); i - 1 when s has no digit at i
RECURSIVE DigitsEnd(_, _)
DigitsEnd(s, i) ==
    IF i <= Len(s) /\ IsDigit(Char(s, i)) THEN DigitsEnd(s, i + 1) ELSE i - 1

\* the first position at or after i that holds no white space (\s*)
RECURSIVE SkipSpace(_, _)
SkipSpace(s, i) ==
    IF i <= Len(s) /\ IsSpace(Char(s, i)) THEN SkipSpace(s, i + 1) ELSE i

DigitVal(c) ==
    CASE c = "0" -> 0 [] c = "1" -> 1 [] c = "2" -> 2 [] c = "3" -> 3
      [] c = "4" -> 4 [] c = "5" -> 5 [] c = "6" -> 6 [] c = "7" -> 7
      [] c = "8" -> 8 [] c = "9" -> 9

RECURSIVE StripZeros(_)
StripZeros(d) == IF Len(d) > 1 /\ Char(d, 1) = "0" THEN StripZeros(Tail(d)) ELSE d

\* a <= b for two decimal numerals of the same length
RECURSIVE LexLeq(_, _)
LexLeq(a, b) ==
    IF Len(a) = 0 THEN TRUE
    ELSE IF DigitVal(Char(a, 1)) < DigitVal(Char(b, 1)) THEN TRUE
    ELSE IF DigitVal(Char(a, 1)) > DigitVal(Char(b, 1)) THEN FALSE
    ELSE LexLeq(Tail(a), Tail(b))

\* the number written d is at most the number written m (numerals of any
\* length: the values themselves may exceed any machine integer)
DecLeq(d, m) ==
    LET a == StripZeros(d)
        b == StripZeros(m)
    IN  Len(a) < Len(b) \/ (Len(a) = Len(b) /\ LexLeq(a, b))

\* str::parse::<i32>() of a run of digits is Ok exactly when the number fits
ParsesAsI32(d) == DecLeq(d, "2147483647")

\* str::parse::<u32>() of a run of digits is Ok exactly when the number fits
ParsesAsU32(d) == DecLeq(d, "4294967295")


Min(S) == CHOOSE x \in S : \A y \in S : x <= y

Max(S) == CHOOSE x \in S : \A y \in S : x >= y

LowerLetters == "abcdefghijklmnopqrstuvwxyz"
UpperLetters == "ABCDEFGHIJKLMNOPQRSTUVWXYZ"
Digits == "0123456789"

CharsOf(s) == {Char(s, i) : i \in 1..Len(s)}

LowerSet == CharsOf(LowerLetters)
UpperSet == CharsOf(UpperLetters)

IsLower(c) == c \in LowerSet
IsUpper(c) == c \in UpperSet
IsLetter(c) == IsLower(c) \/ IsUpper(c)
IsAlnum(c) == IsLetter(c) \/ IsDigit(c)

\* char::to_lowercase on the characters of the model (ASCII)
LowerOf == [c \in UpperSet |-> Char(LowerLetters, Find(UpperLetters, c))]

LowerChar(c) == IF IsUpper(c) THEN LowerOf[c] ELSE c

\* str::to_lowercase (the text is mapped half by half)
RECURSIVE ToLower(_)
ToLower(s) ==
    IF Len(s) = 0 THEN ""
    ELSE IF Len(s) = 1 THEN LowerChar(s)
    ELSE ToLower(SubSeq(s, 1, Len(s) \div 2)) \o ToLower(SubSeq(s, Len(s) \div 2 + 1, Len(s)))

\* str::trim_start, str::trim_end, str::trim
TrimStart(s) == From(s, SkipSpace(s, 1))

TrimEnd(s) ==
    LET keep == {i \in 1..Len(s) : ~IsSpace(Char(s, i))}
    IN  IF keep = {} THEN "" ELSE SubSeq(s, 1, Max(keep))

Trim(s) == TrimEnd(TrimStart(s))

\* str::replace : every occurrence of p, left to right, without overlap
RECURSIVE Replace(_, _, _)
Replace(s, p, r) ==
    LET i == Find(s, p)
    IN  IF i = 0 THEN s
        ELSE Before(s, i) \o r \o Replace(From(s, i + Len(p)), p, r)

\* str::split(sep).nth(1) : the piece between the first and the second
\* occurrence of sep, None when sep does not occur
SplitNth1(s, sep) ==
    LET i == Find(s, sep)
    IN  IF i = 0 THEN None
        ELSE LET rest == From(s, i + Len(sep))
                 j    == Find(rest, sep)
             IN  Some(IF j = 0 THEN rest ELSE Before(rest, j))

\* str::split(sep) : all the pieces
RECURSIVE Split(_, _)
Split(s, sep) ==
    LET i == Find(s, sep)
    IN  IF i = 0 THEN <<s>>
        ELSE <<Before(s, i)>> \o Split(From(s, i + Len(sep)), sep)

\* str::split(|c| c in seps) : the pieces between the characters of seps
RECURSIVE SplitChars(_, _)
SplitChars(s, seps) ==
    LET at == {i \in 1..Len(s) : Char(s, i) \in seps}
    IN  IF at = {} THEN <<s>>
        ELSE <<Before(s, Min(at))>> \o SplitChars(From(s, Min(at) + 1), seps)

\* [String]::join(sep)
RECURSIVE Join(_, _)
Join(parts, sep) ==
    IF Len(parts) = 0 THEN ""
    ELSE IF Len(parts) = 1 THEN parts[1]
    ELSE parts[1] \o sep \o Join(Tail(parts), sep)

\* the end of the longest run of characters of class that starts at position
\* i (a greedy class+); i - 1 when s has no such character at i
RunEnd(s, i, class) ==
    Max({j \in (i - 1)..Len(s) : \A k \in i..j : Char(s, k) \in class})

\* the start of the longest run of characters of class that ends at
\* position i; i + 1 when s has no such character at i
RunStart(s, i, class) ==
    Min({j \in 1..(i + 1) : \A k \in j..i : Char(s, k) \in class})

(***************************************************************************)
(* E-mail addresses and contact names in the user's text.                  *)
(***************************************************************************)
Alnum == CharsOf(LowerLetters) \cup CharsOf(UpperLetters) \cup CharsOf(Digits)

\* the classes of the regex  [a-zA-Z0-9_.+-]+@[a-zA-Z0-9-]+\.[a-zA-Z0-9-.]+
EmailLocal == Alnum \cup {"_", ".", "+", "-"}
EmailDomain == Alnum \cup {"-"}
EmailTail == Alnum \cup {"-", "."}

\* the '@' signs at which that regex can match when the search starts at
\* position from
EmailSigns(s, from) ==
    {p \in (from + 1)..Len(s) :
        /\ Char(s, p) = "@"
        /\ Char(s, p - 1) \in EmailLocal
        /\ LET d == RunEnd(s, p + 1, EmailDomain)
           IN  /\ d >= p + 1
               /\ d + 2 <= Len(s)
               /\ Char(s, d + 1) = "."
               /\ Char(s, d + 2) \in EmailTail}

\* Regex::is_match
EmailIsMatch(s) == EmailSigns(s, 1) # {}

\* the leftmost match at or after position from: [first, last]
EmailMatch(s, from) ==
    LET p == Min(EmailSigns(s, from))
        a == RunStart(s, p - 1, EmailLocal)
        d == RunEnd(s, p + 1, EmailDomain)
    IN  [first |-> IF a < from THEN from ELSE a, last |-> RunEnd(s, d + 2, EmailTail)]

\* Regex::captures_iter : the matches from left to right, without overlap
RECURSIVE EmailMatches(_, _)
EmailMatches(s, from) ==
    IF EmailSigns(s, from) = {} THEN <<>>
    ELSE LET m == EmailMatch(s, from)
         IN  <<SubSeq(s, m.first, m.last)>> \o EmailMatches(s, m.last + 1)

\* calendar::contains_dangerous_characters
contains_dangerous_characters(input) ==
    \E c \in {";", "&", "|", "<", ">", "$"} : Contains(input, c)

\* calendar::validate_email : the regex
\* ^[A-Za-z0-9._%+-]+@[A-Za-z0-9.-]+\.[A-Za-z]{2,}$  and no dangerous character
validate_email(email) ==
    LET signs == {i \in 1..Len(email) : Char(email, i) = "@"}
        p     == Min(signs)
        dots  == {i \in (p + 1)..Len(email) : Char(email, i) = "."}
        q     == Max(dots)
    IN  /\ Cardinality(signs) = 1
        /\ p > 1
        /\ \A i \in 1..(p - 1) : Char(email, i) \in Alnum \cup {".", "_", "%", "+", "-"}
        /\ dots # {}
        /\ q > p + 1
        /\ \A i \in (p + 1)..(q - 1) : Char(email, i) \in Alnum \cup {".", "-"}
        /\ Len(email) - q >= 2
        /\ \A i \in (q + 1)..Len(email) : IsLetter(Char(email, i))
        /\ ~contains_dangerous_characters(email)

SelectSeqValid(es) == SelectSeq(es, validate_email)

\* grok::utils::extract_email_addresses
extract_email_addresses(input) == SelectSeqValid(EmailMatches(input, 1))

StopWords == <<"at", "on", "tomorrow", "today", "for", "about", "regarding">>

\* natural_language::utils::refine_name : the name cut at each stop word in
\* turn (n stop words applied)
RECURSIVE RefineFrom(_, _)
RefineFrom(name, n) ==
    IF n = 0 THEN Trim(name)
    ELSE LET final == RefineFrom(name, n - 1)
             pos   == Find(ToLower(final), " " \o StopWords[n])
         IN  IF pos = 0 THEN final ELSE Trim(Before(final, pos))

refine_name(name_part) == RefineFrom(name_part, Len(StopWords))

\* the names one piece of the text gives
NamesOfPart(part) ==
    LET name_part == Trim(part)
        keep(n)   == n # "" /\ ~EmailIsMatch(n)
    IN  IF name_part = "" \/ EmailIsMatch(name_part) THEN <<>>
        ELSE IF Contains(name_part, " and ")
        THEN LET and_parts == Split(name_part, " and ")
             IN  SelectSeq([i \in 1..Len(and_parts) |-> refine_name(and_parts[i])], keep)
        ELSE SelectSeq(<<refine_name(name_part)>>, keep)

RECURSIVE Flatten(_)
Flatten(ss) == IF Len(ss) = 0 THEN <<>> ELSE Head(ss) \o Flatten(Tail(ss))

\* natural_language::utils::extract_contact_names
extract_contact_names(input) ==
    LET input_lower == ToLower(input)
        text_to_parse ==
            IF Contains(input_lower, " with ") THEN SplitNth1(input, " with ")
            ELSE IF Contains(input_lower, " to ") THEN SplitNth1(input, " to ")
            ELSE IF Contains(input_lower, "invite ")
            THEN (IF Contains(input, "invite ")
                  THEN Some(From(input, Find(input, "invite ") + Len("invite ")))
                  ELSE None)
            ELSE None
    IN  IF text_to_parse = None THEN <<>>
        ELSE LET parts == SplitChars(text_to_parse[1], {",", ";", "."})
             IN  Flatten([i \in 1..Len(parts) |-> NamesOfPart(parts[i])])

(***************************************************************************)
(* The enhancement stages of the Grok parser.                              *)
(***************************************************************************)
RecurrenceUnits == <<"day", "week", "month", "year">>

RepeatOf(unit) ==
    CASE unit = "day" -> "daily" [] unit = "week" -> "weekly"
      [] unit = "month" -> "monthly" [] unit = "year" -> "yearly"

\* the regex  every (\d+) (day|week|month|year)s? : the positions where it
\* matches
EveryHits(command) ==
    {i \in 1..Len(command) :
        /\ At(command, i, "every ")
        /\ LET d == DigitsEnd(command, i + 6)
           IN  /\ d >= i + 6
               /\ Char(command, d + 1) = " "
               /\ \E u \in 1..Len(RecurrenceUnits) : At(command, d + 2, RecurrenceUnits[u])}

\* the captures of its leftmost match: [interval, unit]
EveryCaptures(command) ==
    LET i == Min(EveryHits(command))
        d == DigitsEnd(command, i + 6)
        u == Min({n \in 1..Len(RecurrenceUnits) : At(command, d + 2, RecurrenceUnits[n])})
    IN  [interval |-> SubSeq(command, i + 6, d), unit |-> RecurrenceUnits[u]]

AddUnlessHas(enhanced, flag, text) ==
    IF Contains(enhanced, flag) THEN enhanced ELSE Trim(enhanced) \o text

\* grok::utils::enhance_recurrence_command
enhance_recurrence_command(command) ==
    IF ~Contains(command, "calendar create") THEN command
    ELSE LET worded ==
                 IF Contains(command, " every day") \/ Contains(command, " daily")
                 THEN AddUnlessHas(command, "--repeat", " --repeat daily")
                 ELSE IF Contains(command, " every week") \/ Contains(command, " weekly")
                 THEN AddUnlessHas(command, "--repeat", " --repeat weekly")
                 ELSE IF Contains(command, " every month") \/ Contains(command, " monthly")
                 THEN AddUnlessHas(command, "--repeat", " --repeat monthly")
                 ELSE IF \/ Contains(command, " every year")
                         \/ Contains(command, " yearly")
                         \/ Contains(command, " annually")
                 THEN AddUnlessHas(command, "--repeat", " --repeat yearly")
                 ELSE command
         IN  IF EveryHits(command) = {} THEN worded
             ELSE LET caps     == EveryCaptures(command)
                      repeated == AddUnlessHas(worded, "--repeat",
                                               " --repeat " \o RepeatOf(caps.unit))
                  IN  AddUnlessHas(repeated, "--interval", " --interval " \o caps.interval)

ZoomKeywords ==
    {"zoom", "video call", "video meeting", "virtual meeting", "online meeting",
     "teams meeting", "google meet"}

\* grok::utils::enhance_command_with_zoom
\* enhance_command_with_zoom without its test for 'calendar create'
enhance_command_with_zoom_AnyCommand(command, input) ==
    IF Contains(command, "--zoom") THEN command
    ELSE IF \E k \in ZoomKeywords : Contains(ToLower(input), k)
    THEN Trim(command) \o " --zoom"
    ELSE command

enhance_command_with_zoom(command, input) ==
    IF ~Contains(command, "calendar create") \/ Contains(command, "--zoom") THEN command
    ELSE IF \E k \in ZoomKeywords : Contains(ToLower(input), k)
    THEN Trim(command) \o " --zoom"
    ELSE command

\* the regex  --email\s+"([^@"]+)" : the positions where it matches
NameEmailHits(enhanced) ==
    {i \in 1..Len(enhanced) :
        /\ At(enhanced, i, "--email")
        /\ LET q == SkipSpace(enhanced, i + 7)
               e == RunEnd(enhanced, q + 1, CharsOf(enhanced) \ {"@", "\""})
           IN  /\ q > i + 7
               /\ Char(enhanced, q) = "\""
               /\ e >= q + 1
               /\ Char(enhanced, e + 1) = "\""}

\* Regex::replace(enhanced, "") : the leftmost match of that regex removed
RemoveNameEmail(enhanced) ==
    LET i == Min(NameEmailHits(enhanced))
        q == SkipSpace(enhanced, i + 7)
        e == RunEnd(enhanced, q + 1, CharsOf(enhanced) \ {"@", "\""})
    IN  Before(enhanced, i) \o From(enhanced, e + 2)

\* the loop that removes  --email "<name>"  for the first n contact names
RECURSIVE RemoveNamedEmails(_, _, _)
RemoveNamedEmails(enhanced, names, n) ==
    IF n = 0 THEN enhanced
    ELSE LET before == RemoveNamedEmails(enhanced, names, n - 1)
             quoted == "--email \"" \o names[n] \o "\""
         IN  IF Contains(before, quoted) THEN Trim(Replace(before, quoted, "")) ELSE before

\* grok::utils::enhance_command_with_contacts
enhance_command_with_contacts(command, input) ==
    IF ~Contains(command, "calendar create") THEN command
    ELSE LET email_addresses == extract_email_addresses(input)
             contact_names   == extract_contact_names(input)
             step3 ==
                 IF Len(email_addresses) > 0 /\ ~Contains(command, "--email")
                 THEN command \o " --email \""
                          \o Replace(Join(email_addresses, ","), "\"", "\\\"") \o "\""
                 ELSE command
             step4 ==
                 IF ~Contains(step3, "--email") THEN step3
                 ELSE RemoveNamedEmails(
                          IF NameEmailHits(step3) # {} THEN Trim(RemoveNameEmail(step3))
                          ELSE step3,
                          contact_names, Len(contact_names))
         IN  IF Len(contact_names) > 0 /\ ~Contains(step4, "--contacts")
             THEN step4 \o " --contacts \""
                      \o Replace(Join(contact_names, ","), "\"", "\\\"") \o "\""
             ELSE step4

\* \d{4}-\d{2}-\d{2} at position i: the position after it, 0 when it does
\* not match
DateEnd(s, i) ==
    IF /\ \A k \in {0, 1, 2, 3, 5, 6, 8, 9} : IsDigit(Char(s, i + k))
       /\ Char(s, i + 4) = "-"
       /\ Char(s, i + 7) = "-"
    THEN i + 10 ELSE 0

\* \d{1,2}:\d{2} at position i: the position after it, 0 when it does not
\* match
TimeEnd(s, i) ==
    LET colon == IF IsDigit(Char(s, i)) /\ IsDigit(Char(s, i + 1)) /\ Char(s, i + 2) = ":"
                 THEN i + 2
                 ELSE IF IsDigit(Char(s, i)) /\ Char(s, i + 1) = ":" THEN i + 1
                 ELSE 0
    IN  IF colon # 0 /\ IsDigit(Char(s, colon + 1)) /\ IsDigit(Char(s, colon + 2))
        THEN colon + 3 ELSE 0

\* \s+ at position i: the position after it, 0 when there is no white space
SpacesEnd(s, i) == IF SkipSpace(s, i) > i THEN SkipSpace(s, i) ELSE 0

\* the regex of fix_calendar_end_time_format tried at position i: its
\* captures, None when it does not match there
EndTimeCaptures(s, i) ==
    LET q1   == SpacesEnd(s, i + Len("calendar create"))
        t9   == RunEnd(s, q1 + 1, CharsOf(s) \ {"\""})
        d1   == SpacesEnd(s, t9 + 2)
        d9   == DateEnd(s, d1)
        s1   == SpacesEnd(s, d9)
        s9   == TimeEnd(s, s1)
        e0   == SpacesEnd(s, s9)
        x9   == DateEnd(s, e0)
        x1   == SpacesEnd(s, x9)
        dated == x9 # 0 /\ x1 # 0 /\ TimeEnd(s, x1) # 0
        e1   == IF dated THEN x1 ELSE e0
    IN  IF /\ At(s, i, "calendar create")
           /\ q1 # 0 /\ Char(s, q1) = "\""
           /\ t9 >= q1 + 1 /\ Char(s, t9 + 1) = "\""
           /\ d1 # 0 /\ d9 # 0 /\ s1 # 0 /\ s9 # 0 /\ e0 # 0
           /\ TimeEnd(s, e1) # 0
        THEN Some([title      |-> SubSeq(s, q1 + 1, t9),
                   date       |-> SubSeq(s, d1, d9 - 1),
                   start_time |-> SubSeq(s, s1, s9 - 1),
                   end_date   |-> dated,
                   end_time   |-> SubSeq(s, e1, TimeEnd(s, e1) - 1)])
        ELSE None

\* grok::utils::fix_calendar_end_time_format
fix_calendar_end_time_format(command) ==
    LET hits == {i \in 1..Len(command) : EndTimeCaptures(command, i) # None}
    IN  IF ~Contains(command, "calendar create") \/ hits = {} THEN command
        ELSE LET caps == EndTimeCaptures(command, Min(hits))[1]
                 end_pos == Find(command, caps.end_time)
                 after_end_time == From(command, end_pos + Len(caps.end_time))
             IN  IF caps.end_date
                 THEN "ducktape calendar create \"" \o caps.title \o "\" " \o caps.date
                          \o " " \o caps.start_time \o " " \o caps.end_time
                          \o " " \o Trim(after_end_time)
                 ELSE command

\* the stages in the order parse_natural_language applies them
EnhanceChain(commands, sanitized_input) ==
    fix_calendar_end_time_format(
        enhance_command_with_zoom(
            enhance_command_with_contacts(enhance_recurrence_command(commands),
                                          sanitized_input),
            sanitized_input))

(***************************************************************************)
(* The security validator.                                                 *)
(***************************************************************************)
\* U+0060, the backtick: a TLA+ string cannot hold that character, so the
\* model writes it "^", a character no text of the model uses otherwise
Backtick == "^"

ShellMeta == {"&&", "|", ";", Backtick}

\* the regex  --interval (\d+) : what group 1 of the leftmost match
\* captures, "" when the regex does not match
IntervalCapture(command) ==
    LET pat  == "--interval "
        hits == {i \in 1..Len(command) :
                    /\ At(command, i, pat)
                    /\ DigitsEnd(command, i + Len(pat)) >= i + Len(pat)}
    IN  IF hits = {} THEN ""
        ELSE LET i == Min(hits)
             IN  SubSeq(command, i + Len(pat), DigitsEnd(command, i + Len(pat)))

\* the validator's check of the interval of a calendar command
IntervalVerdict(command) ==
    IF /\ Contains(command, "calendar create")
       /\ Contains(command, "--interval")
       /\ IntervalCapture(command) # ""
       /\ ParsesAsI32(IntervalCapture(command))
       /\ ~DecLeq(IntervalCapture(command), "100")
    THEN "ErrInterval"
    ELSE "Ok"

\* the validator without its test for ';'
validate_calendar_command_NoSemicolon(command) ==
    IF \E m \in ShellMeta \ {";"} : Contains(command, m) THEN "ErrUnsafe"
    ELSE IntervalVerdict(command)

\* parser::natural_language::utils::validate_calendar_command
validate_calendar_command(command) ==
    IF \E m \in ShellMeta : Contains(command, m) THEN "ErrUnsafe"
    ELSE IntervalVerdict(command)

\* the regex  ^\s*(\d+)  applied to what follows the first occurrence of
\* flag: the digits captured, "" when flag is absent or the regex fails
NumberAfterFirst(command, flag) ==
    LET idx  == Find(command, flag)
        part == From(command, idx + Len(flag))
        j    == SkipSpace(part, 1)
        e    == DigitsEnd(part, j)
    IN  IF idx = 0 \/ e < j THEN "" ELSE SubSeq(part, j, e)

\* parser::openai::utils::validate_calendar_command
openai_validate_calendar_command(command) ==
    LET interval == NumberAfterFirst(command, "--interval")
        count    == NumberAfterFirst(command, "--count")
    IN  IF \E m \in ShellMeta : Contains(command, m) THEN "ErrUnsafe"
        ELSE IF interval # "" /\ ParsesAsU32(interval) /\ ~DecLeq(interval, "100")
             THEN "ErrInterval"
        ELSE IF count # "" /\ ParsesAsU32(count) /\ ~DecLeq(count, "500")
             THEN "ErrCount"
        ELSE "Ok"

(***************************************************************************)
(* The response cache: an LruCache<String, String> of CACHE_CAPACITY       *)
(* entries behind a mutex.  An Option is a sequence: <<>> is None and      *)
(* <<v>> is Some(v).                                                       *)
(***************************************************************************)
CACHE_CAPACITY == 100

Holds(entries, k) == \E i \in DOMAIN entries : entries[i].k = k

IndexOf(entries, k) == CHOOSE i \in DOMAIN entries : entries[i].k = k

Without(entries, i) == SubSeq(entries, 1, i - 1) \o SubSeq(entries, i + 1, Len(entries))

\* LruCache::peek : the value under k, the order of the entries untouched
Peek(entries, k) ==
    IF Holds(entries, k) THEN Some(entries[IndexOf(entries, k)].v) ELSE None

\* a lookup that leaves the order of the entries alone (what peek does)
LruGet_NoRefresh(entries, k) == [entries |-> entries, ret |-> Peek(entries, k)]

\* LruCache::get : a hit makes k the most recently used entry
LruGet(entries, k) ==
    IF Holds(entries, k)
    THEN LET i == IndexOf(entries, k)
         IN  [entries |-> <<entries[i]>> \o Without(entries, i),
              ret |-> Some(entries[i].v)]
    ELSE [entries |-> entries, ret |-> None]

\* LruCache::put : k becomes the most recently used entry; a new key put
\* into a full cache takes the place of the least recently used one
LruPut(entries, k, v) ==
    IF Holds(entries, k)
    THEN [entries |-> <<[k |-> k, v |-> v]>> \o Without(entries, IndexOf(entries, k)),
          evicted |-> None]
    ELSE IF Len(entries) >= CACHE_CAPACITY
    THEN [entries |-> <<[k |-> k, v |-> v]>> \o SubSeq(entries, 1, Len(entries) - 1),
          evicted |-> Some(entries[Len(entries)].k)]
    ELSE [entries |-> <<[k |-> k, v |-> v]>> \o entries, evicted |-> None]

\* store_response(input, response), the lock held for the call
store_response(entries, input, response) == LruPut(entries, input, response)

\* get_cached_response(input), the lock held for the call
get_cached_response(entries, input) == LruGet(entries, input)

\* The cache with the history of its calls: clock counts the calls that
\* touched an entry, stored[k] is the value of the last store of k,
\* storeAt[k] the time of that store, touchAt[k] the time of the last store
\* or hit of k, fills the number of filler keys stored so far, calls the
\* number of calls made.
EmptyCache ==
    [entries |-> <<>>, clock |-> 0, fills |-> 0, calls |-> 0,
     stored |-> <<>>, storeAt |-> <<>>, touchAt |-> <<>>,
     last |-> [op |-> "none"]]

FillerValue == "ducktape note list"

FillerKey(i) == "filler " \o ToString(i)

IsFiller(k) == StartsWith(k, "filler ")

CallStore(c, input, response) ==
    LET r == store_response(c.entries, input, response)
        t == c.clock + 1
    IN  [entries |-> r.entries,
         clock   |-> t,
         calls   |-> c.calls + 1,
         fills   |-> IF IsFiller(input) THEN c.fills + 1 ELSE c.fills,
         stored  |-> (input :> response) @@ c.stored,
         storeAt |-> (input :> t) @@ c.storeAt,
         touchAt |-> (input :> t) @@ c.touchAt,
         last    |-> [op |-> "store", key |-> input, evicted |-> r.evicted,
                      wasFull |-> Len(c.entries) >= CACHE_CAPACITY,
                      wasHeld |-> Holds(c.entries, input)]]

CallGet(c, input) ==
    LET r == get_cached_response(c.entries, input)
        t == c.clock + 1
    IN  IF r.ret = None
        THEN [c EXCEPT !.calls = c.calls + 1,
                       !.last = [op |-> "get", key |-> input, ret |-> None]]
        ELSE [c EXCEPT !.entries = r.entries,
                       !.calls = c.calls + 1,
                       !.clock = t,
                       !.touchAt = (input :> t) @@ c.touchAt,
                       !.last = [op |-> "get", key |-> input, ret |-> r.ret]]

\* the calls of a sequence, one after the other
RECURSIVE RunCalls(_, _, _)
RunCalls(c, calls, n) ==
    IF n = 0 THEN c
    ELSE LET b == RunCalls(c, calls, n - 1)
         IN  IF calls[n].op = "store"
             THEN CallStore(b, calls[n].k, calls[n].v)
             ELSE CallGet(b, calls[n].k)

\* n more filler keys stored, one store_response call each (the calls are
\* split in halves, the first half computed before the second starts)
RECURSIVE StoreFillers(_, _)
StoreFillers(c, n) ==
    IF n = 0 THEN c
    ELSE IF n = 1 THEN CallStore(c, FillerKey(c.fills + 1), FillerValue)
    ELSE LET half == StoreFillers(c, n \div 2)
         IN  IF half.clock >= 0 THEN StoreFillers(half, n - (n \div 2)) ELSE half

CacheIs(c) ==
    /\ cache = c.entries
    /\ hist = [clock |-> c.clock, fills |-> c.fills, calls |-> c.calls, stored |-> c.stored,
               storeAt |-> c.storeAt, touchAt |-> c.touchAt]
    /\ last = c.last

CacheNow == [entries |-> cache, last |-> last] @@ hist

CacheBecomes(c) ==
    /\ cache' = c.entries
    /\ hist' = [clock |-> c.clock, fills |-> c.fills, calls |-> c.calls, stored |-> c.stored,
                storeAt |-> c.storeAt, touchAt |-> c.touchAt]
    /\ last' = c.last

CacheIdle == CacheIs(EmptyCache)

(***************************************************************************)
(* The cache on its own.  It starts empty, or warm: after a few calls on   *)
(* the keys under test followed by filler keys up to Headroom entries      *)
(* below its capacity.  Then MaxCalls calls follow, each one a store or a  *)
(* lookup of a key under test, a lookup of a key never stored, or a store  *)
(* of the next filler key.                                                 *)
(***************************************************************************)
Headroom == 1
MaxCalls == 4

TestKeys == {"lunch with Ann", "standup"}
MissingKey == "does not exist"
TestValues == {"ducktape calendar create \"L\"", "ducktape todo create \"L\""}

St(k, v) == [op |-> "store", k |-> k, v |-> v]
Gt(k) == [op |-> "get", k |-> k]

WarmPrefixes ==
    LET k == "lunch with Ann"
        a == "standup"
        v == "ducktape calendar create \"L\""
        w == "ducktape todo create \"L\""
    IN  {<<St(k, v), St(a, v)>>,
         <<St(a, v), St(k, v), Gt(a)>>,
         <<St(k, v), St(a, w), St(k, w)>>,
         <<St(a, v), St(k, v), Gt(k), Gt(a)>>}

WarmCaches ==
    {StoreFillers(RunCalls(EmptyCache, p, Len(p)), CACHE_CAPACITY - Headroom - 2) :
        p \in WarmPrefixes}

InitCache ==
    /\ cmd = "" /\ orig = "" /\ out = NoOut
    /\ NlIdle
    /\ AppIdle
    /\ \E c \in {EmptyCache} \cup WarmCaches :
           CacheIs([c EXCEPT !.calls = 0, !.last = [op |-> "none"]])

StoreResponse ==
    /\ hist.calls < MaxCalls
    /\ \E k \in TestKeys \cup {FillerKey(hist.fills + 1)} :
       \E v \in IF IsFiller(k) THEN {FillerValue} ELSE TestValues :
           CacheBecomes(CallStore(CacheNow, k, v))
    /\ UNCHANGED <<pureVars, nlVars, appVars>>

GetCachedResponse ==
    /\ hist.calls < MaxCalls
    /\ \E k \in TestKeys \cup {MissingKey} : CacheBecomes(CallGet(CacheNow, k))
    /\ UNCHANGED <<pureVars, nlVars, appVars>>

NextCache == StoreResponse \/ GetCachedResponse

SpecCache == InitCache /\ [][NextCache]_vars

(***************************************************************************)
(* Properties of the cache, stated on the history of its calls.            *)
(***************************************************************************)
EverStored(k) == k \in DOMAIN hist.stored

\* the other keys whose last store is later than the last store of k
StoredSince(k) ==
    {j \in DOMAIN hist.storeAt : j # k /\ hist.storeAt[j] > hist.storeAt[k]}

\* the other keys whose last store or hit is later than the last store or
\* hit of k
TouchedSince(k) ==
    {j \in DOMAIN hist.touchAt : j # k /\ hist.touchAt[j] > hist.touchAt[k]}

CachedKeys == {cache[i].k : i \in DOMAIN cache}

\* C4 as stated: a lookup of a stored key k returns the value last stored
\* under k as long as fewer than 100 other distinct keys have been stored
\* since that store.
C4_UntilHundredStored ==
    (last.op = "get" /\ EverStored(last.key)
        /\ Cardinality(StoredSince(last.key)) < CACHE_CAPACITY)
    => last.ret = Some(hist.stored[last.key])

\* C4, amended: a lookup of a stored key k returns the value last stored
\* under k exactly as long as fewer than 100 other distinct keys have been
\* stored or read with a hit since k was last stored or read with a hit, and
\* None afterwards; the cache never holds more than 100 entries; a store
\* evicts exactly when it puts an absent key into a full cache, and then the
\* evicted key is the one least recently stored or read; a key never stored
\* returns None.
C4_LruCache ==
    /\ Len(cache) <= CACHE_CAPACITY
    /\ Cardinality(CachedKeys) = Len(cache)
    /\ (last.op = "get" /\ ~EverStored(last.key)) => last.ret = None
    /\ (last.op = "get" /\ EverStored(last.key)) =>
            IF Cardinality(TouchedSince(last.key)) < CACHE_CAPACITY
            THEN last.ret = Some(hist.stored[last.key])
            ELSE last.ret = None
    /\ last.op = "store" =>
            /\ Peek(cache, last.key) = Some(hist.stored[last.key])
            /\ (last.evicted # None) <=> (last.wasFull /\ ~last.wasHeld)
            /\ last.evicted # None =>
                   /\ Len(cache) = CACHE_CAPACITY
                   /\ last.evicted[1] \notin CachedKeys
                   /\ \A j \in CachedKeys :
                          hist.touchAt[j] > hist.touchAt[last.evicted[1]]

\* a key that was stored is looked up after its eviction
C4_Witness ==
    /\ last.op = "get" /\ EverStored(last.key) /\ last.ret = None
    /\ Len(cache) = CACHE_CAPACITY

(***************************************************************************)
(* The command texts the validator is run on: a command followed by        *)
(* MaxFrags fragments (flags, shell text, or nothing).                     *)
(***************************************************************************)
MaxFrags == 2

ValidatorHeads ==
    {"ducktape calendar create \"M\" 2024-05-01 14:00 15:00",
     "ducktape todo create \"M\"",
     "; ducktape calendar create \"M\""}

ValidatorFrags ==
    {"", "; rm -rf /", " | sh", " && ls", " " \o Backtick \o "id" \o Backtick, " & bg",
     " --interval 5", " --interval 100", " --interval 101", " --interval 500",
     " --interval 99999999999", " --interval x",
     " --count 500", " --count 501", " --count 1000", " --count 99999999999"}

RECURSIVE Concat(_, _)
Concat(fs, n) == IF n = 0 THEN "" ELSE Concat(fs, n - 1) \o fs[n]

ValidatorTexts ==
    {h \o Concat(fs, MaxFrags) : h \in ValidatorHeads, fs \in [1..MaxFrags -> ValidatorFrags]}

InitValidate ==
    /\ cmd \in ValidatorTexts
    /\ orig = ""
    /\ out = NoOut
    /\ CacheIdle
    /\ NlIdle
    /\ AppIdle

Validate ==
    /\ out = NoOut
    /\ out' = [op |-> "validate", result |-> validate_calendar_command(cmd)]
    /\ UNCHANGED <<cmd, orig, cacheVars, nlVars, appVars>>

OpenAiValidate ==
    /\ out = NoOut
    /\ out' = [op |-> "openai_validate", result |-> openai_validate_calendar_command(cmd)]
    /\ UNCHANGED <<cmd, orig, cacheVars, nlVars, appVars>>

NextValidate == Validate \/ OpenAiValidate

SpecValidate == InitValidate /\ [][NextValidate]_vars

Validated == out.op \in {"validate", "openai_validate"}

\* C1: a command text that contains ';', '|', '&&' or a backtick anywhere is
\* rejected by the validator (by both copies of it), whatever else the text
\* holds.
C1_MetaRejected ==
    (Validated /\ \E m \in {";", "|", "&&", Backtick} : Contains(cmd, m))
        => out.result = "ErrUnsafe"

\* the validator has run on a text that is not a calendar command, carries
\* a flag, and holds shell text after it
C1_Witness ==
    /\ out.op = "validate"
    /\ out.result = "ErrUnsafe"
    /\ ~Contains(cmd, "calendar create")
    /\ Contains(cmd, "--count 500; rm -rf /")

\* some occurrence of flag in the text is followed by a number above limit
FlagAbove(command, flag, limit) ==
    \E i \in 1..Len(command) :
        /\ At(command, i, flag \o " ")
        /\ DigitsEnd(command, i + Len(flag) + 1) >= i + Len(flag) + 1
        /\ ~DecLeq(SubSeq(command, i + Len(flag) + 1,
                          DigitsEnd(command, i + Len(flag) + 1)), limit)

\* C3: the validator rejects every text with an --interval above 100 or a
\* --count above 500, whatever the size of the number and whichever
\* occurrence of the flag carries it.
C3_RangeRejected ==
    (Validated /\ (FlagAbove(cmd, "--interval", "100") \/ FlagAbove(cmd, "--count", "500")))
        => out.result # "Ok"

(***************************************************************************)
(* The natural-language parser (parser::natural_language::grok).           *)
(***************************************************************************)
\* U+00A0, the no-break space: written "~" in the model, a character no
\* text of the model uses otherwise
Nbsp == "~"

\* char::is_control on the characters of the model
IsControl(c) == c \in {"\t", "\n", "\r", "\f"}

\* natural_language::utils::sanitize_user_input : the control characters
\* other than newline and tab are dropped (the text is filtered half by half)
RECURSIVE sanitize_user_input(_)
sanitize_user_input(input) ==
    IF Len(input) = 0 THEN ""
    ELSE IF Len(input) = 1
    THEN (IF ~IsControl(input) \/ input = "\n" \/ input = "\t" THEN input ELSE "")
    ELSE sanitize_user_input(SubSeq(input, 1, Len(input) \div 2))
             \o sanitize_user_input(SubSeq(input, Len(input) \div 2 + 1, Len(input)))

\* the title sanitize_nlp_command takes from "... called <title> at ..."
CalledTitle(command) ==
    IF ~Contains(command, " called ") THEN "Event"
    ELSE LET title_part == SplitNth1(command, " called ")[1]
             ends == {Find(title_part, m) : m \in {" at ", " on ", " for ", " with ", " and "}}
                         \ {0}
         IN  IF ends = {} THEN title_part ELSE Before(title_part, Min(ends))

\* natural_language::grok::utils::sanitize_nlp_command
grok_sanitize_nlp_command(command) ==
    IF ~StartsWith(command, "ducktape")
    THEN IF \E pat \in {"create an event", "schedule a", "create event", "schedule event",
                        "create a meeting", "schedule meeting"} : Contains(command, pat)
         THEN "ducktape calendar create \"" \o CalledTitle(command)
                  \o "\" today 00:00 01:00 \"Calendar\""
         ELSE "ducktape " \o command
    ELSE Replace(Replace(command, Nbsp, " "), "\"\"", "\"")

\* GrokParser::parse_input : is_event_creation
is_event_creation(input) ==
    LET input_lower == ToLower(input)
    IN  \/ \E pat \in {"create an event", "schedule a meeting", "create a meeting",
                       "add an event", "create event"} : Contains(input_lower, pat)
        \/ /\ Contains(input_lower, "schedule")
           /\ Contains(input_lower, "meeting") \/ Contains(input_lower, "event")

\* parse_natural_language : is_todo_request
is_todo_request(sanitized_input) ==
    LET input_lower == ToLower(sanitized_input)
    IN  \/ \E pat \in {"todo", "reminder", "task", "checklist"} : Contains(input_lower, pat)
        \/ Contains(input_lower, "remind") /\ ~Contains(input_lower, "meeting")

\* Result<String>
Ok(text) == [ok |-> TRUE, val |-> text]
Err(kind) == [ok |-> FALSE, val |-> kind]

\* the ways the provider call itself fails
ProviderFailures == {"transport", "status", "json", "content"}

\* the lookup result ignored
AfterLookup_IgnoreHit(ret) == [pc |-> "calendars", pnl |-> None]

\* where parse_natural_language goes on from the cache lookup: a hit is
\* returned at once
AfterLookup(ret) ==
    IF ret # None THEN [pc |-> "finish", pnl |-> Some(Ok(ret[1]))]
    ELSE [pc |-> "calendars", pnl |-> None]

\* the reply stored last, after enhancement and validation
PcAfter_StoreLast(step) ==
    CASE step = "response" -> "enhance"
      [] step = "enhance"  -> "validate"
      [] step = "validate" -> "store"
      [] step = "store"    -> "finish"

\* the order of the steps of parse_natural_language once the reply is there
PcAfter(step) ==
    CASE step = "response" -> "store"
      [] step = "store"    -> "enhance"
      [] step = "enhance"  -> "validate"
      [] step = "validate" -> "finish"

\* a transport error answered by another request
PcOnFailure_Retry(kind) == IF kind = "transport" THEN "request" ELSE "finish"

\* where parse_natural_language goes on from a failure of the provider call
PcOnFailure(kind) == "finish"

(***************************************************************************)
(* The enhancement stages on their own: a command text and the user's      *)
(* input are chosen, then MaxApplications stages (or whole chains) are     *)
(* applied, each to the output of the one before, with the same input.     *)
(***************************************************************************)
MaxApplications == 2

Standup == "ducktape calendar create \"Standup\" 2024-03-15 10:00 11:00 \"Work\""

EnhanceCommands ==
    {Standup,
     Standup \o " --email \"Bob\"",
     Standup \o " --email \"Bob\" --email \"Al\"",
     Standup \o " --repeat daily ",
     "ducktape calendar create \"Standup\" 2024-03-15 10:00 2024-03-15 11:00 \"Work\"",
     "ducktape calendar create \"Sync every 3 days\" 2024-03-15 9:00 9:30",
     "ducktape todo create \"Buy milk every week\"",
     "ducktape note create \"Call Bob daily\" \"mail a@b.co, 10:00 2024-03-15 11:00\" ",
     "ducktape calendar list",
     "ducktape calendar create \"Team weekly sync\" 2024-03-15 10:00 11:00 \"Work\" every 3 days"}

EnhanceInputs ==
    {"standup every 2 weeks",
     "lunch, cc a@b.co",
     "zoom call with Ann and Bob tomorrow",
     "buy milk"}

NotEnhanced == [op |-> "none", n |-> 0]

InitEnhance ==
    /\ cmd \in EnhanceCommands
    /\ orig \in EnhanceInputs
    /\ out = NotEnhanced
    /\ CacheIdle
    /\ NlIdle
    /\ AppIdle

\* one stage applied to the current text
Applied(stage, result) ==
    /\ out.n < MaxApplications
    /\ out' = [op |-> stage, n |-> out.n + 1, prev |-> out.op,
               before |-> cmd, after |-> result]
    /\ cmd' = result
    /\ UNCHANGED <<orig, cacheVars, nlVars, appVars>>

EnhanceRecurrence == Applied("recurrence", enhance_recurrence_command(cmd))

EnhanceContacts == Applied("contacts", enhance_command_with_contacts(cmd, orig))

EnhanceZoom == Applied("zoom", enhance_command_with_zoom(cmd, orig))

FixEndTime == Applied("end_time", fix_calendar_end_time_format(cmd))

EnhanceAll == Applied("chain", EnhanceChain(cmd, orig))

NextEnhance ==
    EnhanceRecurrence \/ EnhanceContacts \/ EnhanceZoom \/ FixEndTime \/ EnhanceAll

SpecEnhance == InitEnhance /\ [][NextEnhance]_vars

EnhanceOps == {"recurrence", "contacts", "zoom", "end_time", "chain"}

\* C9: a stage, or the whole chain, applied to its own output with the same
\* input leaves that output unchanged.
C9_Idempotent ==
    (out.op \in EnhanceOps /\ out.prev = out.op) => out.after = out.before

HasRecurrenceFlags(command) ==
    Contains(command, "--repeat") \/ Contains(command, "--interval")

\* C10: the chain run on a calendar command without recurrence flags, for an
\* input that says 'every N <unit>s', gives a text with the matching
\* --repeat and --interval N, the phrase being in the input only.
C10_RecurrenceFromInput ==
    (/\ out.op = "chain"
     /\ Contains(out.before, "calendar create")
     /\ ~HasRecurrenceFlags(out.before)
     /\ EveryHits(out.before) = {}
     /\ EveryHits(orig) # {})
    => /\ Contains(out.after, "--repeat " \o RepeatOf(EveryCaptures(orig).unit))
       /\ Contains(out.after, "--interval " \o EveryCaptures(orig).interval)

\* C14: a command text without 'calendar create' comes back unchanged from
\* every enhancement stage and from the whole chain, whatever the input
\* holds.
C14_OtherCommandsUnchanged ==
    (out.op \in EnhanceOps /\ ~Contains(out.before, "calendar create"))
    => out.after = out.before

\* a note command has gone through the chain with an input that names
\* people and asks for a zoom call
C14_Witness ==
    /\ out.op = "chain"
    /\ Contains(out.before, "note create")
    /\ Contains(out.before, " daily")
    /\ Contains(orig, "zoom")
    /\ extract_contact_names(orig) # <<>>
    /\ out.after = out.before

(***************************************************************************)
(* Calls of the natural-language parser, one after the other: through      *)
(* GrokParser::parse_input or straight into parse_natural_language.  The   *)
(* cache starts empty, as it does when the program starts.  The            *)
(* environment decides whether the API key is set, whether the calendar    *)
(* list and the configuration can be read, and what the provider answers.  *)
(***************************************************************************)
MaxParses == 2
MAX_INPUT == 1000

\* s repeated n times
RECURSIVE Rep(_, _)
Rep(s, n) ==
    IF n = 0 THEN ""
    ELSE IF n = 1 THEN s
    ELSE Rep(s, n \div 2) \o Rep(s, n - (n \div 2))

LongInput == Rep("a", MAX_INPUT + 1)

NLInputs ==
    {"", LongInput,
     "schedule a meeting with Ann",
     "remind me to buy milk",
     "add lunch\r tomorrow"}

ProviderReplies ==
    {"  ducktape calendar create \"Meeting\" 2024-05-01 14:00 15:00 \"Work\"\n",
     "ducktape todo create \"Buy milk\"; rm -rf /",
     "ducktape calendar create \"Lunch\" 2024-05-01 12:00 13:00 --interval 500",
     "calendar list"}

InitNL ==
    /\ cmd = "" /\ orig = "" /\ out = NoOut
    /\ CacheIdle
    /\ AppIdle
    /\ NlIdle

NewCall(input, key, via) ==
    [n |-> nl.n + 1, input |-> input, key |-> key, via |-> via,
     event |-> is_event_creation(input), sanitized |-> "", todo |-> FALSE,
     hit |-> FALSE, cache0 |-> cache, trace |-> <<>>, requests |-> 0,
     calendars |-> "unread", config |-> "unread", reply |-> "", enhanced |-> "",
     pnl |-> None]

Did(event) == Append(nl.trace, event)

\* GrokParser::parse_input up to its call of parse_natural_language, and
\* parse_natural_language up to its first await: the input checks, the
\* cache lookup, the read of the API key
ParseInput ==
    /\ pc = "idle"
    /\ nl.n < MaxParses
    /\ \E input \in NLInputs, key \in BOOLEAN, via \in {"parse_input", "direct"} :
         LET call == NewCall(input, key, via)
             sanitized_input == sanitize_user_input(input)
             looked == CallGet(CacheNow, sanitized_input)
             next == AfterLookup(looked.last.ret)
         IN  IF via = "parse_input" /\ ~key
             THEN /\ nl' = call
                  /\ pc' = "idle"
                  /\ out' = [op |-> "parse_input", result |-> Err("no_key")]
                  /\ UNCHANGED <<cacheVars, appVars>>
             ELSE IF input = "" \/ Len(input) > MAX_INPUT
             THEN /\ nl' = [call EXCEPT !.pnl = Some(Err(IF input = "" THEN "empty"
                                                          ELSE "too_long"))]
                  /\ pc' = "finish"
                  /\ out' = NoOut
                  /\ UNCHANGED <<cacheVars, appVars>>
             ELSE /\ CacheBecomes(looked)
                  /\ nl' = [call EXCEPT !.sanitized = sanitized_input,
                                        !.todo = is_todo_request(sanitized_input),
                                        !.hit = looked.last.ret # None,
                                        !.trace = <<"lookup">>,
                                        !.pnl = IF next.pnl = None /\ ~key
                                                THEN Some(Err("no_key")) ELSE next.pnl]
                  /\ pc' = IF next.pnl = None /\ ~key THEN "finish" ELSE next.pc
                  /\ out' = NoOut
    /\ UNCHANGED <<cmd, orig, appVars>>

\* get_available_calendars().await : the list is read; when that fails the
\* built-in list takes its place and the call goes on the same way
ReadCalendars ==
    /\ pc = "calendars"
    /\ nl' = [nl EXCEPT !.calendars = "read", !.trace = Did("calendars")]
    /\ pc' = "config"
    /\ UNCHANGED <<pureVars, cacheVars, appVars>>

\* Config::load() : the configuration is read; when that fails the default
\* one takes its place and the call goes on the same way
LoadConfig ==
    /\ pc = "config"
    /\ nl' = [nl EXCEPT !.config = "read", !.trace = Did("config")]
    /\ pc' = "request"
    /\ UNCHANGED <<pureVars, cacheVars, appVars>>

\* Client::builder().build(), then client.post(..).send().await : the
\* client cannot be built, or the request goes out, or it fails to
SendRequest ==
    /\ pc = "request"
    /\ \E outcome \in {"client", "transport", "sent"} :
         IF outcome = "client"
         THEN /\ nl' = [nl EXCEPT !.pnl = Some(Err("client"))]
              /\ pc' = "finish"
         ELSE IF outcome = "sent"
         THEN /\ nl' = [nl EXCEPT !.requests = @ + 1, !.trace = Did("request")]
              /\ pc' = "response"
         ELSE /\ nl' = [nl EXCEPT !.requests = @ + 1, !.trace = Did("request"),
                                  !.pnl = Some(Err("transport"))]
              /\ pc' = PcOnFailure("transport")
    /\ UNCHANGED <<pureVars, cacheVars, appVars>>

\* the response: its status, its body, the content field
ReceiveResponse ==
    /\ pc = "response"
    /\ \/ \E kind \in {"status", "json", "content"} :
            /\ nl' = [nl EXCEPT !.pnl = Some(Err(kind))]
            /\ pc' = PcOnFailure(kind)
       \/ \E content \in ProviderReplies :
            /\ nl' = [nl EXCEPT !.reply = Trim(content)]
            /\ pc' = PcAfter("response")
    /\ UNCHANGED <<pureVars, cacheVars, appVars>>

\* cache::store_response(&sanitized_input, &commands)
StoreReply ==
    /\ pc = "store"
    /\ CacheBecomes(CallStore(CacheNow, nl.sanitized, nl.reply))
    /\ nl' = [nl EXCEPT !.trace = Did("store")]
    /\ pc' = PcAfter("store")
    /\ UNCHANGED <<pureVars, appVars>>

\* the four enhancement stages
Enhance ==
    /\ pc = "enhance"
    /\ nl' = [nl EXCEPT !.enhanced = EnhanceChain(nl.reply, nl.sanitized),
                        !.trace = Did("enhance")]
    /\ pc' = PcAfter("enhance")
    /\ UNCHANGED <<pureVars, cacheVars, appVars>>

\* validate_calendar_command(&enhanced_command)
ValidateReply ==
    /\ pc = "validate"
    /\ LET verdict == validate_calendar_command(nl.enhanced)
       IN  nl' = [nl EXCEPT !.pnl = Some(IF verdict = "Ok" THEN Ok(nl.enhanced)
                                         ELSE Err(verdict)),
                            !.trace = Did("validate")]
    /\ pc' = PcAfter("validate")
    /\ UNCHANGED <<pureVars, cacheVars, appVars>>

\* parse_natural_language returns; GrokParser::parse_input turns its result
\* into its own
Return ==
    /\ pc = "finish"
    /\ LET res == nl.pnl[1]
       IN  out' = IF nl.via = "direct"
                  THEN [op |-> "parse_natural_language", result |-> res]
                  ELSE [op |-> "parse_input",
                        result |-> IF res.ok THEN Ok(grok_sanitize_nlp_command(res.val))
                                   ELSE IF nl.event
                                   THEN Ok(grok_sanitize_nlp_command(nl.input))
                                   ELSE res]
    /\ pc' = "idle"
    /\ UNCHANGED <<cmd, orig, nl, cacheVars, appVars>>

NextNL ==
    \/ ParseInput \/ ReadCalendars \/ LoadConfig \/ SendRequest \/ ReceiveResponse
    \/ StoreReply \/ Enhance \/ ValidateReply \/ Return

SpecNL == InitNL /\ [][NextNL]_vars

Called == nl.n > 0

Range(f) == {f[i] : i \in DOMAIN f}

\* some step of kinds is in the trace of the call without an earlier step
\* named first
Precedes(first, kinds) ==
    \A i \in DOMAIN nl.trace :
        nl.trace[i] \in kinds => \E j \in 1..(i - 1) : nl.trace[j] = first

\* C5: the cache lookup comes before any provider request, and a call whose
\* lookup hits returns the cached text without any provider request,
\* calendar-list read or configuration read.
C5_LookupFirst ==
    Called =>
        /\ Precedes("lookup", {"calendars", "config", "request"})
        /\ nl.hit => /\ nl.trace = <<"lookup">>
                     /\ nl.requests = 0
                     /\ nl.calendars = "unread" /\ nl.config = "unread"
                     /\ nl.pnl = Some(Ok(Peek(nl.cache0, nl.sanitized)[1]))
                     /\ pc \in {"finish", "idle"}

\* a call has returned a text found in the cache
C5_Witness ==
    /\ Called /\ nl.hit /\ pc = "idle"
    /\ out = [op |-> "parse_natural_language", result |-> Ok(hist.stored[nl.sanitized])]

\* C6: a successful reply is stored under the sanitized input before any
\* enhancement or validation; the entry is there when validation fails the
\* call; a failed provider call stores nothing.
C6_StoredBeforeEnhancement ==
    Called =>
        /\ Precedes("store", {"enhance", "validate"})
        /\ (nl.pnl # None /\ "validate" \in Range(nl.trace))
               => Peek(cache, nl.sanitized) = Some(nl.reply)
        /\ (nl.pnl # None /\ nl.pnl[1].val \in ProviderFailures \cup {"client"})
               => cache = nl.cache0 /\ ~Holds(cache, nl.sanitized)

\* validation has failed a call, and the reply is in the cache all the same
C6_Witness ==
    /\ Called /\ pc = "idle"
    /\ out.op = "parse_natural_language" /\ out.result = Err("ErrUnsafe")
    /\ Peek(cache, nl.sanitized) = Some(nl.reply)

\* C7: a call issues at most one provider request; a transport error, a
\* non-success status, an unparsable body or a missing content field ends the
\* call with an error, no second request made.
C7_OneRequest ==
    Called =>
        /\ nl.requests <= 1
        /\ (nl.pnl # None /\ nl.pnl[1].val \in ProviderFailures)
               => nl.requests = 1 /\ ~nl.pnl[1].ok /\ pc \in {"finish", "idle"}

\* a call has ended with the transport error of its only request
C7_Witness ==
    /\ Called /\ pc = "idle" /\ nl.requests = 1
    /\ out = [op |-> "parse_natural_language", result |-> Err("transport")]

\* C8: when the provider call or the validation fails inside
\* parse_natural_language, parse_input returns that error, never an Ok built
\* some other way.
C8_ErrorReturned ==
    (/\ Called /\ pc = "idle" /\ out.op = "parse_input"
     /\ nl.pnl # None
     /\ nl.pnl[1].val \in ProviderFailures \cup {"client", "ErrUnsafe", "ErrInterval"})
    => out.result = nl.pnl[1]

(***************************************************************************)
(* The Application (app.rs): a line typed at the prompt, or the words of   *)
(* the command line, is tokenized, parsed into a CommandArgs by the clap   *)
(* grammar or by the legacy parser, and handed to the CommandProcessor.    *)
(***************************************************************************)
\* let x = v in F(x) : v is computed once, whatever F does with it
Bind(v, F(_)) == CHOOSE r \in {F(x) : x \in {v}} : TRUE

\* shell_words::split, one character: q is the splitter's state, the word
\* being built and the words already finished
ShellStep(q, c) ==
    CASE q.st = "Delimiter" ->
             IF c = "'" THEN [q EXCEPT !.st = "SingleQuoted"]
             ELSE IF c = "\"" THEN [q EXCEPT !.st = "DoubleQuoted"]
             ELSE IF c = "\\" THEN [q EXCEPT !.st = "Backslash"]
             ELSE IF c \in {"\t", " ", "\n"} THEN q
             ELSE IF c = "#" THEN [q EXCEPT !.st = "Comment"]
             ELSE [q EXCEPT !.st = "Unquoted", !.word = c]
      [] q.st = "Backslash" ->
             IF c = "\n" THEN [q EXCEPT !.st = "Delimiter"]
             ELSE [q EXCEPT !.st = "Unquoted", !.word = q.word \o c]
      [] q.st = "Unquoted" ->
             IF c = "'" THEN [q EXCEPT !.st = "SingleQuoted"]
             ELSE IF c = "\"" THEN [q EXCEPT !.st = "DoubleQuoted"]
             ELSE IF c = "\\" THEN [q EXCEPT !.st = "UnquotedBackslash"]
             ELSE IF c \in {"\t", " ", "\n"}
             THEN [st |-> "Delimiter", word |-> "", words |-> Append(q.words, q.word)]
             ELSE [q EXCEPT !.word = q.word \o c]
      [] q.st = "UnquotedBackslash" ->
             IF c = "\n" THEN [q EXCEPT !.st = "Unquoted"]
             ELSE [q EXCEPT !.st = "Unquoted", !.word = q.word \o c]
      [] q.st = "SingleQuoted" ->
             IF c = "'" THEN [q EXCEPT !.st = "Unquoted"]
             ELSE [q EXCEPT !.word = q.word \o c]
      [] q.st = "DoubleQuoted" ->
             IF c = "\"" THEN [q EXCEPT !.st = "Unquoted"]
             ELSE IF c = "\\" THEN [q EXCEPT !.st = "DoubleQuotedBackslash"]
             ELSE [q EXCEPT !.word = q.word \o c]
      [] q.st = "DoubleQuotedBackslash" ->
             IF c = "\n" THEN [q EXCEPT !.st = "DoubleQuoted"]
             ELSE IF c \in {"$", Backtick, "\"", "\\"}
             THEN [q EXCEPT !.st = "DoubleQuoted", !.word = q.word \o c]
             ELSE [q EXCEPT !.st = "DoubleQuoted", !.word = q.word \o "\\" \o c]
      [] q.st = "Comment" ->
             IF c = "\n" THEN [q EXCEPT !.st = "Delimiter"] ELSE q

\* the characters lo..hi of s fed to the splitter, half by half
RECURSIVE ShellScan(_, _, _, _)
ShellScan(s, lo, hi, q) ==
    IF lo > hi THEN q
    ELSE IF lo = hi THEN ShellStep(q, Char(s, lo))
    ELSE Bind(ShellScan(s, lo, (lo + hi) \div 2, q),
              LAMBDA half : ShellScan(s, (lo + hi) \div 2 + 1, hi, half))

\* shell_words::split : the words of s, or ParseError when the text ends
\* inside a quoted string
shell_words_split(s) ==
    Bind(ShellScan(s, 1, Len(s), [st |-> "Delimiter", word |-> "", words |-> <<>>]),
         LAMBDA q :
             CASE q.st \in {"Delimiter", "Comment"} -> Ok(q.words)
               [] q.st \in {"Backslash", "UnquotedBackslash"} ->
                      Ok(Append(q.words, q.word \o "\\"))
               [] q.st = "Unquoted" -> Ok(Append(q.words, q.word))
               [] OTHER -> Err("ParseError"))

\* tokenize_input, the scanner it falls back to: one character
ManualStep(q, c) ==
    IF q.escaped THEN [q EXCEPT !.current_token = q.current_token \o c, !.escaped = FALSE]
    ELSE IF c = "\\" THEN [q EXCEPT !.escaped = TRUE]
    ELSE IF c = "\"" THEN [q EXCEPT !.in_quotes = ~q.in_quotes]
    ELSE IF (IsSpace(c) \/ c = Nbsp) /\ ~q.in_quotes
    THEN IF q.current_token # ""
         THEN [q EXCEPT !.tokens = Append(q.tokens, q.current_token), !.current_token = ""]
         ELSE q
    ELSE [q EXCEPT !.current_token = q.current_token \o c]

RECURSIVE ManualScan(_, _, _, _)
ManualScan(s, lo, hi, q) ==
    IF lo > hi THEN q
    ELSE IF lo = hi THEN ManualStep(q, Char(s, lo))
    ELSE Bind(ManualScan(s, lo, (lo + hi) \div 2, q),
              LAMBDA half : ManualScan(s, (lo + hi) \div 2 + 1, hi, half))

\* a token that starts and ends with the same kind of quote
IsQuoted(t) ==
    \/ StartsWith(t, "\"") /\ Char(t, Len(t)) = "\""
    \/ StartsWith(t, "'") /\ Char(t, Len(t)) = "'"

\* postprocess_flags, from token i on
RECURSIVE PostprocessFrom(_, _)
PostprocessFrom(tokens, i) ==
    IF i > Len(tokens) THEN <<>>
    ELSE LET token == tokens[i]
         IN  IF token = "--contacts" /\ i + 1 <= Len(tokens)
             THEN IF IsQuoted(tokens[i + 1])
                  THEN <<token, tokens[i + 1]>> \o PostprocessFrom(tokens, i + 2)
                  ELSE LET flagsAt == {k \in (i + 1)..Len(tokens) : StartsWith(tokens[k], "--")}
                           j == IF flagsAt = {} THEN Len(tokens) + 1 ELSE Min(flagsAt)
                           contact_str == Join(SubSeq(tokens, i + 1, j - 1), " ")
                       IN  IF j > i + 1
                           THEN <<token, IF IsQuoted(contact_str) THEN contact_str
                                         ELSE "\"" \o contact_str \o "\"">>
                                    \o PostprocessFrom(tokens, j)
                           ELSE <<token>> \o PostprocessFrom(tokens, i + 2)
             ELSE IF /\ token \in {"--location", "--notes", "--email", "--contacts"}
                     /\ i + 1 <= Len(tokens)
             THEN <<token, tokens[i + 1]>> \o PostprocessFrom(tokens, i + 2)
             ELSE <<token>> \o PostprocessFrom(tokens, i + 1)

postprocess_flags(tokens) == PostprocessFrom(tokens, 1)

\* tokenize_input
tokenize_input(input) ==
    Bind(shell_words_split(input),
         LAMBDA split :
             IF split.ok THEN Ok(postprocess_flags(split.val))
             ELSE Bind(ManualScan(input, 1, Len(input),
                           [tokens |-> <<>>, current_token |-> "",
                            in_quotes |-> FALSE, escaped |-> FALSE]),
                       LAMBDA q :
                           IF q.in_quotes THEN Err("Unclosed quote in input")
                           ELSE Bind(IF q.current_token # ""
                                     THEN Append(q.tokens, q.current_token)
                                     ELSE q.tokens,
                                     LAMBDA tokens : Ok(postprocess_flags(tokens)))))

\* HashMap::insert
Insert(flags, name, value) ==
    [k \in DOMAIN flags \cup {name} |-> IF k = name THEN value ELSE flags[k]]

NoFlags == [k \in {} |-> None]

CommandArgs_new(command, args, flags) ==
    [command |-> command, args |-> args, flags |-> flags]

\* CommandArgs::parse, one token after the command: p holds args, flags and
\* current_flag
ParseToken(p, token) ==
    IF StartsWith(token, "--")
    THEN [p EXCEPT !.flags = IF p.current_flag # None
                             THEN Insert(p.flags, p.current_flag[1], None)
                             ELSE p.flags,
                   !.current_flag = Some(From(token, 3))]
    ELSE IF p.current_flag # None
    THEN [p EXCEPT !.flags = Insert(p.flags, p.current_flag[1], Some(token)),
                   !.current_flag = None]
    ELSE [p EXCEPT !.args = Append(p.args, token)]

\* CommandArgs::parse, the loop over the tokens from token i on, and the
\* flag left without a value when the tokens end
RECURSIVE ParseTokens(_, _, _)
ParseTokens(tokens, i, p) ==
    IF i > Len(tokens)
    THEN IF p.current_flag # None
         THEN [p EXCEPT !.flags = Insert(p.flags, p.current_flag[1], None),
                        !.current_flag = None]
         ELSE p
    ELSE Bind(ParseToken(p, tokens[i]), LAMBDA next : ParseTokens(tokens, i + 1, next))

\* process_calendar_create_args : the words before the first one that holds
\* '-' or ':' are joined into the title
process_calendar_create_args(args) ==
    IF Len(args) < 2 \/ Contains(args[2], " ") THEN args
    ELSE Bind({i \in 3..Len(args) : Contains(args[i], "-") \/ Contains(args[i], ":")},
              LAMBDA stops :
                  LET title_parts ==
                          SubSeq(args, 2, (IF stops = {} THEN Len(args) + 1 ELSE Min(stops)) - 1)
                  IN  IF Len(title_parts) > 1
                      THEN <<args[1], Join(title_parts, " ")>>
                               \o SubSeq(args, Len(title_parts) + 2, Len(args))
                      ELSE args)

\* CommandArgs::parse, once the input is tokenized
ParseTokenized(tokens) ==
    IF Len(tokens) = 0 THEN Err("No command provided")
    ELSE Bind(ToLower(tokens[1]) = "ducktape",
              LAMBDA prefixed :
                  IF prefixed /\ Len(tokens) < 2
                  THEN Err("No command provided after 'ducktape'")
                  ELSE Bind(<<ToLower(tokens[IF prefixed THEN 2 ELSE 1]),
                              ParseTokens(tokens, IF prefixed THEN 3 ELSE 2,
                                  [args |-> <<>>, flags |-> NoFlags, current_flag |-> None])>>,
                            LAMBDA cp :
                                Ok(CommandArgs_new(cp[1],
                                       IF cp[1] = "calendar" /\ Len(cp[2].args) > 0
                                              /\ cp[2].args[1] = "create"
                                       THEN process_calendar_create_args(cp[2].args)
                                       ELSE cp[2].args,
                                       cp[2].flags))))

\* CommandArgs::parse
CommandArgs_parse(input) ==
    Bind(Replace(input, Nbsp, " "),
         LAMBDA normalized_input :
             Bind(tokenize_input(normalized_input),
                  LAMBDA tokens : IF tokens.ok THEN ParseTokenized(tokens.val) ELSE tokens))

\* the handlers of CommandProcessor::new, in the order they are registered,
\* each with the command names its can_handle accepts
Handlers ==
    << [name |-> "CalendarHandler", can_handle |-> {"calendar", "calendars", "calendar-props"}],
       [name |-> "TodoHandler", can_handle |-> {"todo", "todos"}],
       [name |-> "NotesHandler", can_handle |-> {"note", "notes"}],
       [name |-> "ConfigHandler", can_handle |-> {"config"}],
       [name |-> "UtilitiesHandler", can_handle |-> {"utility", "utils"}],
       [name |-> "ContactGroupsHandler", can_handle |-> {"contacts", "contact"}],
       [name |-> "VersionHandler", can_handle |-> {"version", "--version", "-v"}],
       [name |-> "HelpHandler", can_handle |-> {"help", "--help", "-h"}],
       [name |-> "ExitHandler", can_handle |-> {"exit", "quit"}],
       [name |-> "ReminderHandler", can_handle |-> {"reminder", "reminders"}] >>

\* CommandProcessor::execute with a fallback it does not have: HelpHandler
\* for a name no handler accepts
CommandProcessor_execute_HelpFallback(args) ==
    Bind({i \in 1..Len(Handlers) : args.command \in Handlers[i].can_handle},
         LAMBDA able : IF able = {} THEN <<"HelpHandler">> ELSE <<Handlers[Min(able)].name>>)

\* CommandProcessor::execute : the handlers whose execute is invoked, in
\* order; the loop returns from inside the first one that can handle the name
CommandProcessor_execute(args) ==
    Bind({i \in 1..Len(Handlers) : args.command \in Handlers[i].can_handle},
         LAMBDA able : IF able = {} THEN <<>> ELSE <<Handlers[Min(able)].name>>)

\* command_processor::preprocess_input
preprocess_input(input) == Bind(Trim(input), LAMBDA trimmed : ToLower(trimmed))

(***************************************************************************)
(* The clap grammar (cli.rs).  An action of the grammar: its name and      *)
(* aliases, how many positionals it requires, how many more it accepts,    *)
(* whether its last positional takes every further value, the options that *)
(* take a value and the switches that take none.                           *)
(***************************************************************************)
Action(name, alias, required, optional, many, options, switches) ==
    [name |-> name, alias |-> alias, required |-> required, optional |-> optional,
     many |-> many, options |-> options, switches |-> switches]

CalendarActions ==
    << Action("list", {}, 0, 0, FALSE, {}, {}),
       Action("props", {"properties"}, 0, 0, FALSE, {}, {}),
       Action("create", {"add"}, 4, 1, FALSE,
              {"contacts", "email", "location", "notes", "repeat", "interval", "until",
               "count", "days"}, {"zoom"}),
       Action("delete", {"remove"}, 1, 1, FALSE, {}, {}),
       Action("import", {}, 1, 1, FALSE, {"format"}, {}),
       Action("set-default", {}, 1, 0, FALSE, {}, {}) >>

TodoActions ==
    << Action("lists", {}, 0, 0, FALSE, {}, {}),
       Action("list", {}, 0, 1, FALSE, {}, {}),
       Action("create", {"add"}, 1, 0, TRUE, {"remind", "notes"}, {}),
       Action("complete", {"done"}, 1, 1, FALSE, {}, {}),
       Action("delete", {"remove"}, 1, 1, FALSE, {}, {}),
       Action("set-list", {"set-default"}, 1, 0, FALSE, {}, {}) >>

NoteActions ==
    << Action("list", {}, 0, 1, FALSE, {}, {}),
       Action("create", {"add", "new"}, 1, 0, TRUE, {"content", "folder"}, {}),
       Action("search", {"find"}, 1, 0, TRUE, {"folder"}, {}),
       Action("delete", {"remove"}, 1, 0, TRUE, {"folder"}, {}) >>

ConfigActions ==
    << Action("show", {"list", "get"}, 0, 1, FALSE, {}, {}),
       Action("set", {}, 2, 0, FALSE, {}, {}) >>

ContactActions ==
    << Action("create", {}, 2, 0, TRUE, {}, {}),
       Action("list", {}, 0, 0, FALSE, {}, {}),
       Action("show", {}, 1, 0, FALSE, {}, {}) >>

UtilityActions ==
    << Action("date", {}, 0, 0, FALSE, {}, {}),
       Action("time", {}, 0, 0, FALSE, {}, {}),
       Action("date-time", {}, 0, 0, FALSE, {}, {}) >>

Commands ==
    << [name |-> "calendar", alias |-> {}, actions |-> CalendarActions],
       [name |-> "todo", alias |-> {"todos"}, actions |-> TodoActions],
       [name |-> "note", alias |-> {"notes"}, actions |-> NoteActions],
       [name |-> "config", alias |-> {}, actions |-> ConfigActions],
       [name |-> "contact", alias |-> {"contacts"}, actions |-> ContactActions],
       [name |-> "utility", alias |-> {"utils"}, actions |-> UtilityActions] >>

\* the entries of a table of subcommands that a word names
Named(table, word) ==
    {i \in 1..Len(table) : word = table[i].name \/ word \in table[i].alias}

RecurrenceFreq == {"daily", "weekly", "monthly", "yearly"}

\* the options that may be given more than once (Vec<_>)
Appendable == {"contacts", "email", "days"}

\* an argument clap reads as a flag, never as a value
LooksLikeFlag(t) == StartsWith(t, "-") /\ Len(t) > 1

\* "--name" or "--name=value" : the name, with the alias of --repeat resolved
LongName(t) ==
    LET body == From(t, 3)
        eq   == Find(body, "=")
        name == IF eq = 0 THEN body ELSE Before(body, eq)
    IN  IF name = "recurring" THEN "repeat" ELSE name

LongValue(t) ==
    LET body == From(t, 3)
        eq   == Find(body, "=")
    IN  IF eq = 0 THEN None ELSE Some(From(body, eq + 1))

\* the digits of an unsigned number, "" when v is not one
UnsignedDigits(v) ==
    LET d == IF StartsWith(v, "+") THEN From(v, 2) ELSE v
    IN  IF d # "" /\ \A i \in 1..Len(d) : IsDigit(Char(d, i)) THEN d ELSE ""

\* the value parser of an unsigned integer field
ParsesAsUnsigned(v, max) == UnsignedDigits(v) # "" /\ DecLeq(UnsignedDigits(v), max)

\* one argument of an action, the token st.i: st holds the positionals, the
\* values of the options, the switches that are on, whether "--" has been
\* seen and whether clap has rejected an argument
ClapArg(tokens, g, st) ==
    LET t      == tokens[st.i]
        failed == [st EXCEPT !.err = TRUE]
        name   == LongName(t)
        value  == LongValue(t)
        given(v, used) ==
            [st EXCEPT !.i = st.i + used,
                       !.opts = Insert(st.opts, name,
                                    (IF name \in DOMAIN st.opts THEN st.opts[name] ELSE <<>>)
                                        \o <<v>>)]
        positional == [st EXCEPT !.i = st.i + 1, !.pos = Append(st.pos, t)]
    IN  IF st.escaped THEN positional
        ELSE IF t = "--" THEN [st EXCEPT !.i = st.i + 1, !.escaped = TRUE]
        ELSE IF StartsWith(t, "--")
        THEN IF name \in g.switches
             THEN IF value # None \/ name \in st.on THEN failed
                  ELSE [st EXCEPT !.i = st.i + 1, !.on = st.on \cup {name}]
             ELSE IF name \in g.options
             THEN IF name \in DOMAIN st.opts /\ name \notin Appendable THEN failed
                  ELSE IF value # None THEN given(value[1], 1)
                  ELSE IF st.i + 1 > Len(tokens) \/ LooksLikeFlag(tokens[st.i + 1]) THEN failed
                  ELSE given(tokens[st.i + 1], 2)
             ELSE failed
        ELSE IF LooksLikeFlag(t) THEN failed
        ELSE positional

\* the arguments of an action, from token st.i on
RECURSIVE ClapArgs(_, _, _)
ClapArgs(tokens, g, st) ==
    IF st.err \/ st.i > Len(tokens) THEN st
    ELSE Bind(ClapArg(tokens, g, st), LAMBDA next : ClapArgs(tokens, g, next))

\* what clap checks once the arguments are read: the number of positionals
\* and the typed values
ClapAccepts(g, st) ==
    /\ ~st.err
    /\ Len(st.pos) >= g.required
    /\ g.many \/ Len(st.pos) <= g.required + g.optional
    /\ \A name \in DOMAIN st.opts \cap {"interval", "count"} :
           ParsesAsUnsigned(st.opts[name][1], "4294967295")
    /\ "days" \in DOMAIN st.opts =>
           \A k \in 1..Len(st.opts["days"]) :
               \A part \in Range(Split(st.opts["days"][k], ",")) :
                   ParsesAsUnsigned(part, "255")
    /\ "repeat" \in DOMAIN st.opts => st.opts["repeat"][1] \in RecurrenceFreq

\* Cli::try_parse_from, below the command at token i, for the action g
ClapAction(args, i, top, g) ==
    Bind(ClapArgs(args, g, [i |-> i + 2, pos |-> <<>>, opts |-> NoFlags, on |-> {},
                            escaped |-> FALSE, err |-> FALSE]),
         LAMBDA st :
             IF ClapAccepts(g, st)
             THEN Ok([command |-> Some([top |-> top.name, action |-> g.name,
                                        pos |-> st.pos, opts |-> st.opts, on |-> st.on])])
             ELSE Err("clap"))

\* Cli::try_parse_from, at the command at token i: an action must follow
ClapCommand(args, i) ==
    Bind(Commands[Min(Named(Commands, args[i]))],
         LAMBDA top :
             Bind(IF i + 1 <= Len(args) THEN Named(top.actions, args[i + 1]) ELSE {},
                  LAMBDA actions :
                      IF actions = {} THEN Err("clap")
                      ELSE ClapAction(args, i, top, top.actions[Min(actions)])))

\* Cli::try_parse_from, from token i on: the arguments before the command,
\* where only --api-server and --full are known, and they conflict
RECURSIVE ClapTop(_, _, _)
ClapTop(args, i, seen) ==
    IF i > Len(args) THEN Ok([command |-> None])
    ELSE IF args[i] \in {"--api-server", "--full"}
    THEN IF seen # {} THEN Err("clap") ELSE ClapTop(args, i + 1, {args[i]})
    ELSE IF Named(Commands, args[i]) # {} THEN ClapCommand(args, i)
    ELSE Err("clap")

\* Cli::try_parse_from : the first argument is the name of the program
Cli_try_parse_from(args) == ClapTop(args, 2, {})

\* format!("{:?}", r) of a RecurrenceFreq
DebugFreq(r) ==
    CASE r = "daily" -> "Daily" [] r = "weekly" -> "Weekly"
      [] r = "monthly" -> "Monthly" [] r = "yearly" -> "Yearly"

RECURSIVE NormalDays(_)
NormalDays(parts) ==
    IF Len(parts) = 0 THEN <<>>
    ELSE <<StripZeros(UnsignedDigits(Head(parts)))>> \o NormalDays(Tail(parts))

RECURSIVE SplitEach(_, _)
SplitEach(values, sep) ==
    IF Len(values) = 0 THEN <<>>
    ELSE Split(Head(values), sep) \o SplitEach(Tail(values), sep)

\* convert_to_command_args : the value stored for a flag
ConvertedFlag(name, values) ==
    CASE name = "repeat" -> DebugFreq(values[1])
      [] name \in {"interval", "count"} -> StripZeros(UnsignedDigits(values[1]))
      [] name = "days" -> Join(NormalDays(SplitEach(values, ",")), ",")
      [] name \in {"contacts", "email"} -> Join(SplitEach(values, ","), ",")
      [] OTHER -> values[1]

\* convert_to_command_args : the positionals of an action, with the default
\* of the calendar where the grammar has one
ConvertedArgs(c) ==
    LET P == c.pos
    IN  CASE c.top = "calendar" /\ c.action = "create" ->
                 SubSeq(P, 1, 4) \o <<IF Len(P) > 4 THEN P[5] ELSE "Work">>
          [] c.top = "calendar" /\ c.action \in {"delete", "import"} ->
                 <<P[1], IF Len(P) > 1 THEN P[2] ELSE "Work">>
          [] c.top = "todo" /\ c.action = "create" -> <<P[1]>> \o SplitEach(Tail(P), ",")
          [] c.top = "note" /\ c.action # "list" -> <<Join(P, " ")>>
          [] OTHER -> P

\* convert_to_command_args : the flags of an action
ConvertedFlags(c) ==
    Bind([name \in DOMAIN c.opts |-> Some(ConvertedFlag(name, c.opts[name]))],
         LAMBDA given :
             IF "zoom" \in c.on THEN Insert(given, "zoom", Some("true"))
             ELSE IF c.top = "calendar" /\ c.action = "import" /\ "format" \notin DOMAIN given
             THEN Insert(given, "format", Some("ics"))
             ELSE given)

\* convert_to_command_args
convert_to_command_args(cli) ==
    IF cli.command = None THEN None
    ELSE Some(CommandArgs_new(cli.command[1].top,
                  <<IF cli.command[1].action = "date-time" THEN "datetime"
                    ELSE cli.command[1].action>> \o ConvertedArgs(cli.command[1]),
                  ConvertedFlags(cli.command[1])))

(***************************************************************************)
(* The parsers ParserFactory::create_parser chooses from (parser/).        *)
(***************************************************************************)
CommandString(text) == [kind |-> "CommandString", val |-> text]
StructuredCommand(args) == [kind |-> "StructuredCommand", val |-> args]

\* parser::utils::sanitize_nlp_command : the word of the text that starts
\* at position at, up to a space or a quote
WordFrom(cleaned, at) ==
    Bind(From(cleaned, at),
         LAMBDA after :
             Bind({i \in 1..Len(after) : Char(after, i) \in {" ", "\"", "'"}},
                  LAMBDA stops :
                      Trim(IF stops = {} THEN after ELSE Before(after, Min(stops)))))

\* parser::utils::sanitize_nlp_command : the title of the event
EventTitle(cleaned, lower) ==
    IF Contains(lower, " called ") THEN WordFrom(cleaned, Find(lower, " called ") + 8)
    ELSE IF Contains(lower, " titled ") THEN WordFrom(cleaned, Find(lower, " titled ") + 8)
    ELSE IF Contains(lower, "create an event called ")
    THEN WordFrom(cleaned, Find(lower, "create an event called ") + 21)
    ELSE IF Contains(lower, "create a meeting called ")
    THEN WordFrom(cleaned, Find(lower, "create a meeting called ") + 22)
    ELSE IF Contains(lower, "create an event ")
    THEN WordFrom(cleaned, Find(lower, "create an event ") + 15)
    ELSE IF Contains(lower, "schedule a meeting ")
    THEN WordFrom(cleaned, Find(lower, "schedule a meeting ") + 18)
    ELSE "Event"

\* parser::utils::sanitize_nlp_command, once the text is cleaned
SanitizeCleaned(cleaned, lower) ==
    IF \/ \E pat \in {"create an event", "schedule a meeting", "create a meeting",
                      "add an event", "create event"} : Contains(lower, pat)
       \/ /\ Contains(lower, "schedule")
          /\ Contains(lower, "meeting") \/ Contains(lower, "event")
    THEN "ducktape calendar create \"" \o EventTitle(cleaned, lower)
             \o "\" today 00:00 01:00 \"Calendar\""
    ELSE IF ~StartsWith(cleaned, "ducktape") THEN "ducktape " \o cleaned
    ELSE cleaned

\* str::replace, one pair after the other
RECURSIVE ReplaceEach(_, _)
ReplaceEach(s, pairs) ==
    IF Len(pairs) = 0 THEN s
    ELSE Bind(Replace(s, pairs[1][1], pairs[1][2]),
              LAMBDA replaced : ReplaceEach(replaced, Tail(pairs)))

\* parser::utils::sanitize_nlp_command
sanitize_nlp_command(command) ==
    Bind(ReplaceEach(command, << <<Nbsp, " ">>, <<"\"\"", "\"">> >>),
         LAMBDA cleaned :
             Bind(ToLower(cleaned), LAMBDA lower : SanitizeCleaned(cleaned, lower)))

\* parser::grok : sanitize_nlp_command, the one GrokParser::parse_input uses
GrokParser_sanitize_nlp_command(command) ==
    Bind(Trim(command),
         LAMBDA trimmed :
             ReplaceEach(trimmed, << <<";", " ">>, <<"&", " and ">>, <<"|", " ">>,
                                     <<">", " ">>, <<"<", " ">>, <<Backtick, " ">> >>))

\* parser::command::parse_with_clap
parse_with_clap(args) ==
    Bind(Cli_try_parse_from(<<"ducktape">> \o args),
         LAMBDA cli :
             IF ~cli.ok THEN Err("Failed to parse command")
             ELSE Bind(convert_to_command_args(cli.val),
                       LAMBDA cmd_args :
                           IF cmd_args # None THEN Ok(StructuredCommand(cmd_args[1]))
                           ELSE Ok(CommandString("help"))))

\* ParserFactory::create_parser : the parser for the provider the
\* configuration names now; GrokParser::new wants XAI_API_KEY
create_parser(provider, key) ==
    CASE provider = "Grok" -> IF key THEN Ok("GrokParser") ELSE Err("XAI_API_KEY")
      [] provider = "DeepSeek" -> Ok("DeepSeekParser")
      [] provider = "None" -> Ok("TerminalParser")

\* DeepSeekParser::parse_input
DeepSeekParser_parse_input(input) ==
    Bind(Trim(input),
         LAMBDA trimmed :
             Bind(IF StartsWith(trimmed, "ducktape") THEN trimmed ELSE "ducktape " \o trimmed,
                  LAMBDA command : Ok(CommandString(sanitize_nlp_command(command)))))

\* CommandParser::parse_input, which TerminalParser::parse_input calls
CommandParser_parse_input(input) ==
    Bind(shell_words_split(input),
         LAMBDA args : IF args.ok THEN parse_with_clap(args.val)
                       ELSE Err("Failed to parse input"))

\* Parser::parse_input of each parser
parse_input(parser, input, key) ==
    CASE parser = "GrokParser" ->
             IF key THEN Ok(CommandString(GrokParser_sanitize_nlp_command(input)))
             ELSE Err("XAI_API_KEY")
      [] parser = "DeepSeekParser" -> DeepSeekParser_parse_input(input)
      [] parser = "TerminalParser" -> CommandParser_parse_input(input)

\* Application::parse_command_string
parse_command_string(input) ==
    Bind(shell_words_split(input),
         LAMBDA args :
             IF ~args.ok THEN Err("Failed to parse command")
             ELSE IF Len(args.val) = 0 THEN Err("Empty command")
             ELSE Bind(Cli_try_parse_from(args.val),
                       LAMBDA cli :
                           IF ~cli.ok THEN Err("Not a structured command")
                           ELSE Bind(convert_to_command_args(cli.val),
                                     LAMBDA converted :
                                         IF converted = None THEN Err("Failed to convert")
                                         ELSE Ok(converted[1]))))

\* str::trim_matches
RECURSIVE trim_matches(_, _)
trim_matches(s, c) ==
    IF StartsWith(s, c) THEN trim_matches(Tail(s), c)
    ELSE IF Len(s) > 0 /\ Char(s, Len(s)) = c THEN trim_matches(Before(s, Len(s)), c)
    ELSE s

\* args.into_iter().map(|arg| arg.trim_matches('"')).collect()
TrimEachQuote(args) == [i \in 1..Len(args) |-> trim_matches(args[i], "\"")]

(***************************************************************************)
(* A request: the line, the entry point it came in by, the parser that was *)
(* constructed for it, the text that was handed to the pipeline (to the    *)
(* parser, or to the clap grammar when there is no provider), the command  *)
(* text that was parsed into arguments,                                    *)
(* the arguments, the handlers whose execute was invoked and the result.   *)
(***************************************************************************)
NoRequest == [entry |-> "none"]

Request(entry, line) ==
    [entry |-> entry, line |-> line, route |-> "none", parser |-> "none", handed |-> None,
     text |-> None,
     via |-> "none", args |-> None, invoked |-> <<>>, result |-> "Ok"]

Failed(r) == [r EXCEPT !.result = "Err"]

\* Executed with the handler's error swallowed
Executed_AlwaysOk(r, via, args, outcome) ==
    Bind(CommandProcessor_execute(args),
         LAMBDA invoked :
             [r EXCEPT !.via = via, !.args = Some(args), !.invoked = invoked,
                       !.result = IF invoked = <<"ExitHandler">> THEN "exit" ELSE "Ok"])

\* self.command_processor.execute(args) : outcome is what the handler's own
\* execute returns, and ExitHandler::execute ends the process
Executed(r, via, args, outcome) ==
    Bind(CommandProcessor_execute(args),
         LAMBDA invoked :
             [r EXCEPT !.via = via, !.args = Some(args), !.invoked = invoked,
                       !.result = IF invoked = <<>> THEN "Ok"
                                  ELSE IF invoked = <<"ExitHandler">> THEN "exit"
                                  ELSE outcome])

\* the legacy parser, tried when clap refuses the text
LegacyExecuted(r, text, trim, outcome) ==
    Bind(CommandArgs_parse(text),
         LAMBDA legacy :
             IF ~legacy.ok THEN Failed([r EXCEPT !.via = "legacy"])
             ELSE Executed(r, "legacy",
                      IF trim THEN [legacy.val EXCEPT !.args = TrimEachQuote(legacy.val.args)]
                      ELSE legacy.val,
                      outcome))

\* the clap grammar first, the legacy parser when clap refuses the text
ParsedAndExecuted(r, text, trim, outcome) ==
    Bind(parse_command_string(text),
         LAMBDA structured :
             IF structured.ok
             THEN Executed([r EXCEPT !.text = Some(text)], "clap", structured.val, outcome)
             ELSE LegacyExecuted([r EXCEPT !.text = Some(text)], text, trim, outcome))

\* Application::process_command, with a parser of the factory
ParserCommand(r, preprocessed_input, parser, key, outcome) ==
    Bind(parse_input(parser, preprocessed_input, key),
         LAMBDA parsed :
             IF ~parsed.ok THEN Failed([r EXCEPT !.parser = parser])
             ELSE IF parsed.val.kind = "CommandString"
             THEN ParsedAndExecuted([r EXCEPT !.parser = parser], parsed.val.val, FALSE, outcome)
             ELSE Executed([r EXCEPT !.parser = parser, !.text = Some(preprocessed_input)],
                      "structured", parsed.val.val, outcome))

\* Application::process_command
process_command(r, input, provider, key, outcome) ==
    Bind(preprocess_input(input),
         LAMBDA preprocessed_input :
             IF provider = "None"
             THEN ParsedAndExecuted([r EXCEPT !.route = "command",
                                              !.handed = Some(preprocessed_input)],
                      preprocessed_input, FALSE, outcome)
             ELSE IF ~create_parser(provider, key).ok THEN Failed([r EXCEPT !.route = "command"])
             ELSE ParserCommand([r EXCEPT !.route = "command",
                                          !.handed = Some(preprocessed_input)],
                      preprocessed_input,
                      create_parser(provider, key).val, key, outcome))

\* Application::process_natural_language, with the command text of a parser
NaturalCommand(r, command, outcome) ==
    Bind(sanitize_nlp_command(command),
         LAMBDA sanitized_command :
             IF StartsWith(sanitized_command, "ducktape")
             THEN ParsedAndExecuted(r, sanitized_command, TRUE, outcome)
             ELSE [r EXCEPT !.text = Some(sanitized_command)])

\* Application::process_natural_language
process_natural_language(r, input, provider, key, outcome) ==
    IF ~create_parser(provider, key).ok THEN Failed([r EXCEPT !.route = "natural_language"])
    ELSE Bind(<<create_parser(provider, key).val,
                parse_input(create_parser(provider, key).val, input, key)>>,
              LAMBDA pp :
                  LET p == [r EXCEPT !.route = "natural_language", !.parser = pp[1],
                                     !.handed = Some(input)]
                  IN  IF ~pp[2].ok THEN p
                      ELSE IF pp[2].val.kind = "CommandString"
                      THEN NaturalCommand(p, pp[2].val.val, outcome)
                      ELSE Executed([p EXCEPT !.text = Some(input)], "structured",
                               pp[2].val.val, outcome))

\* Application::process_input
process_input(r, input, use_natural_language, provider, key, outcome) ==
    IF preprocess_input(input) \in {"exit", "quit", "ducktape exit", "ducktape quit"}
    THEN Executed([r EXCEPT !.route = "exit"], "exit",
             CommandArgs_new("exit", <<>>, NoFlags), outcome)
    ELSE IF ~use_natural_language THEN process_command(r, input, provider, key, outcome)
    ELSE process_natural_language(r, input, provider, key, outcome)

(***************************************************************************)
(* SpecApp: one Application, the lines it is given at its prompt or by its *)
(* public process_command, and the configuration file edited meanwhile.    *)
(***************************************************************************)
MaxRequests == 2

Providers == {"None", "Grok", "DeepSeek"}

AppLines ==
    { "exit",
      "ducktape calendar list",
      "calendar props",
      "calendar list; rm -rf /",
      "ducktape calendar create \"a;b\" 2025-01-01 10:00 11:00",
      "ducktape calendar create \"Sync | cat\" 2025-01-01 10:00 11:00 Work --zoom",
      "todo create \"Buy Milk\" && reboot",
      "schedule a meeting called x^id^",
      "note add \"oops",
      "frobnicate" }

\* Application::new, under any configuration; main sets a placeholder
\* XAI_API_KEY when there is none, a caller of the library need not
InitApp ==
    /\ cmd = "" /\ orig = "" /\ out = NoOut
    /\ CacheIdle
    /\ NlIdle
    /\ \E provider \in Providers, key \in BOOLEAN :
           app = [n |-> 1, mode |-> "new", provider |-> provider, key |-> key,
                  use_natural_language |-> FALSE, requests |-> 0, req |-> NoRequest]

\* what a request leaves behind; ExitHandler::execute ends the process
Served(r) ==
    /\ app' = [app EXCEPT !.requests = app.requests + 1, !.req = r,
                          !.mode = IF r.result = "exit" THEN "exited" ELSE app.mode]
    /\ UNCHANGED <<pureVars, cacheVars, nlVars>>

\* Application::run, run_terminal_only : the provider is looked up once,
\* before the first prompt
Run ==
    /\ app.mode = "new"
    /\ app' = [app EXCEPT !.mode = "prompt",
                          !.use_natural_language = (app.provider # "None")]
    /\ UNCHANGED <<pureVars, cacheVars, nlVars>>

\* a line read at the prompt
ProcessInput ==
    /\ app.mode = "prompt" /\ app.requests < MaxRequests
    /\ \E line \in AppLines, outcome \in {"Ok", "Err"} :
       \E r \in {process_input(Request("process_input", line), line,
                      app.use_natural_language, app.provider, app.key, outcome)} :
           Served(r)

\* the words of the command line, handed over by main
ProcessCommand ==
    /\ app.mode = "new" /\ app.requests < MaxRequests
    /\ \E line \in AppLines, outcome \in {"Ok", "Err"} :
       \E r \in {process_command(Request("process_command", line), line,
                      app.provider, app.key, outcome)} :
           Served(r)

\* the configuration file is edited while the Application runs
EditConfig ==
    /\ app.mode \in {"new", "prompt"}
    /\ \E provider \in Providers \ {app.provider} :
           app' = [app EXCEPT !.provider = provider]
    /\ UNCHANGED <<pureVars, cacheVars, nlVars>>

NextApp == Run \/ ProcessInput \/ ProcessCommand \/ EditConfig

SpecApp == InitApp /\ [][NextApp]_vars

\* the command text of the last request holds a shell metacharacter
UnsafeText ==
    /\ app.n > 0 /\ app.req.entry # "none" /\ app.req.text # None
    /\ \E m \in {";", "|", "&&", Backtick} : Contains(app.req.text[1], m)

\* C2: whichever parser is selected, a request whose command text contains
\* ';', '|', '&&' or a backtick ends with an error and no handler's execute is
\* invoked: CommandProcessor::execute is reached only with validated text.
C2_ValidatedBeforeExecute ==
    UnsafeText => app.req.result = "Err" /\ app.req.invoked = <<>>

\* C21: the line a caller gives is handed to the pipeline unchanged: the text
\* the parser receives equals the line character for character.
C21_LineForwardedUnchanged ==
    (app.n > 0 /\ app.req.entry # "none" /\ app.req.handed # None)
    => app.req.handed[1] = app.req.line

\* a line read at the prompt has just been served, other than an exit line
PromptServed ==
    /\ app'.requests = app.requests + 1
    /\ app'.req.entry = "process_input"
    /\ app'.req.route # "exit"

\* C22: the provider selection is read anew at every call: the route a call
\* takes (natural language or structured) and the parser it constructs are
\* those of the configuration as it is when the call is made.
C22_SelectionReadPerCall ==
    [][PromptServed =>
          /\ (app'.req.route = "natural_language") = (app.provider # "None")
          /\ app'.req.parser # "none" =>
                 app'.req.parser = create_parser(app.provider, app.key).val]_vars

(***************************************************************************)
(* SpecContacts: extract_contact_names applied to requests that name their *)
(* invitees after a connective, by name or by email address.               *)
(***************************************************************************)
MaxNames == 2

ContactPool == {"John Smith", "Jane Doe", "Harrison Ford"}

ContactSeparators == {", ", "; ", ". ", " and "}

Connectives == {" with ", " to ", " invite "}

\* what may follow the last name: nothing, or a phrase led by a stop word
ContactTails == {"", " tomorrow", " at 2pm"}

\* the lists of at most k names, each with the names it was written from
RECURSIVE NameLists(_)
NameLists(k) ==
    IF k = 1 THEN {[text |-> n, names |-> <<n>>] : n \in ContactPool}
    ELSE NameLists(k - 1)
             \cup {[text |-> l.text \o s \o n, names |-> Append(l.names, n)] :
                      l \in NameLists(k - 1), s \in ContactSeparators, n \in ContactPool}

\* a request, and the names it was written from
ContactCases ==
    {[text |-> "Schedule a meeting" \o c \o l.text \o t, names |-> l.names] :
        c \in Connectives, l \in NameLists(MaxNames), t \in ContactTails}

EmailTexts ==
    {"Schedule a meeting" \o c \o e \o t :
        c \in Connectives, e \in {"bob@example.com", "john.doe@example.com"},
        t \in {"", " tomorrow"}}

InitContacts ==
    /\ cmd = ""
    /\ orig \in {c.text : c \in ContactCases} \cup EmailTexts
    /\ out = NoOut
    /\ CacheIdle
    /\ NlIdle
    /\ AppIdle

ExtractContactNames ==
    /\ out = NoOut
    /\ \E names \in {extract_contact_names(orig)} :
           out' = [op |-> "extract_contact_names", result |-> names]
    /\ UNCHANGED <<cmd, orig, cacheVars, nlVars, appVars>>

NextContacts == ExtractContactNames

SpecContacts == InitContacts /\ [][NextContacts]_vars

\* C11: extract_contact_names returns, in order, exactly the names that
\* follow the connective, split on ',', ';', '.' and ' and '; a name none of
\* whose words is a stop word is returned whole, and a trailing stop word is
\* dropped with the text after it.
C11_NamesAfterConnective ==
    out.op = "extract_contact_names" =>
        \A c \in ContactCases : orig = c.text => out.result = c.names

\* C12: when the text after the connective is an email address, alone or
\* followed by a stop word, extract_contact_names returns the empty list: no
\* fragment of the address is returned as a name.
C12_NoEmailFragment ==
    (out.op = "extract_contact_names" /\ orig \in EmailTexts) => out.result = <<>>


(***************************************************************************)
(* fix_calendar_end_time_format on its own: commands of the form           *)
(* calendar create "<title>" <date> <start> [<stray-date>] <end> <rest>,   *)
(* each with the text the stage is said to return for it.                  *)
(***************************************************************************)
EndTimePrefixes == {"", "ducktape "}
EndTimeTitles == {"Team Meeting", "Sync at 11:00"}
EndTimeStarts == {"23:00", "10:00", "9:30"}
EndTimeEnds == {"00:00", "11:00", "10:00", "0:00"}
EndTimeRests == {"\"Work\"", "\"Work\" --zoom --email \"a@b.co\""}
EndTimeDate == "2025-04-22"

EndTimeCases ==
    {[text  |-> p \o "calendar create \"" \o t \o "\" " \o EndTimeDate \o " " \o s
                  \o " " \o stray \o e \o " " \o r,
      stray |-> stray # "",
      fixed |-> IF stray = ""
                THEN p \o "calendar create \"" \o t \o "\" " \o EndTimeDate \o " " \o s
                       \o " " \o e \o " " \o r
                ELSE "ducktape calendar create \"" \o t \o "\" " \o EndTimeDate \o " " \o s
                       \o " " \o e \o " " \o r] :
        p \in EndTimePrefixes, t \in EndTimeTitles, s \in EndTimeStarts,
        e \in EndTimeEnds, r \in EndTimeRests, stray \in {"", EndTimeDate \o " "}}

InitEndTime ==
    /\ cmd \in {c.text : c \in EndTimeCases}
    /\ orig = ""
    /\ out = NotEnhanced
    /\ CacheIdle
    /\ NlIdle
    /\ AppIdle

NextEndTime == FixEndTime

SpecEndTime == InitEndTime /\ [][NextEndTime]_vars

\* C13: for a command of the form calendar create "<title>" <date> <start>
\* <stray-date> <end> <rest>, whatever the title, the start and the end
\* (start equal to end included), fix_calendar_end_time_format returns
\* ducktape calendar create "<title>" <date> <start> <end> <rest>; a command
\* with no stray date is returned unchanged.
C13_StrayDateRemoved ==
    (out.op = "end_time" /\ out.n = 1) =>
        \A c \in EndTimeCases : out.before = c.text => out.after = c.fixed


(***************************************************************************)
(* The tokenizer and the legacy parser on their own.  A sequence of tokens *)
(* is chosen and written as a line, either each token in double quotes or  *)
(* the bare tokens, both joined with single spaces; or a raw line is       *)
(* chosen.  Then one of tokenize_input, postprocess_flags and              *)
(* CommandArgs::parse is applied.                                          *)
(***************************************************************************)
MaxTokens == 4

TokenWords == {"todo", "Ann", "Bob Lee", "--contacts", "--zoom", "--location"}

RECURSIVE TokenSeqsOf(_)
TokenSeqsOf(n) ==
    IF n = 0 THEN {<<>>}
    ELSE {Append(t, w) : t \in TokenSeqsOf(n - 1), w \in TokenWords}

TokenSeqs == UNION {TokenSeqsOf(n) : n \in 1..MaxTokens}

\* each token in double quotes, the quoted tokens joined with single spaces
join_with_quoting(tokens) ==
    Join([i \in 1..Len(tokens) |-> "\"" \o tokens[i] \o "\""], " ")

\* raw lines, each with whether a quote is opened in it and never closed
RawLines ==
    {[text |-> "note add \"oops",         unclosed |-> TRUE],
     [text |-> "note add 'oops",          unclosed |-> TRUE],
     [text |-> "todo add it's done",      unclosed |-> TRUE],
     [text |-> "note add 'a\"b",          unclosed |-> TRUE],
     [text |-> "note add \"a'b",          unclosed |-> TRUE],
     [text |-> "note add \"it's\" 'x",    unclosed |-> TRUE],
     [text |-> "note add \"it's\"",       unclosed |-> FALSE],
     [text |-> "note add 'say \"hi\"'",   unclosed |-> FALSE],
     [text |-> "note add a\\\"b",         unclosed |-> FALSE],
     [text |-> "",                        unclosed |-> FALSE]}

InitTokenize ==
    /\ \/ /\ cmd \in TokenSeqs
          /\ orig \in {join_with_quoting(cmd), Join(cmd, " ")}
       \/ /\ cmd = <<>>
          /\ orig \in {l.text : l \in RawLines}
    /\ out = NoOut
    /\ CacheIdle
    /\ NlIdle
    /\ AppIdle

TokenizeInput ==
    /\ out = NoOut
    /\ \E r \in {tokenize_input(orig)} : out' = [op |-> "tokenize_input", result |-> r]
    /\ UNCHANGED <<cmd, orig, cacheVars, nlVars, appVars>>

PostprocessFlags ==
    /\ out = NoOut
    /\ \E r \in {postprocess_flags(cmd)} : out' = [op |-> "postprocess_flags", result |-> r]
    /\ UNCHANGED <<cmd, orig, cacheVars, nlVars, appVars>>

ParseCommandArgs ==
    /\ out = NoOut
    /\ \E r \in {CommandArgs_parse(orig)} : out' = [op |-> "CommandArgs::parse", result |-> r]
    /\ UNCHANGED <<cmd, orig, cacheVars, nlVars, appVars>>

NextTokenize == TokenizeInput \/ PostprocessFlags \/ ParseCommandArgs

SpecTokenize == InitTokenize /\ [][NextTokenize]_vars

\* C15: for a sequence of tokens without quote characters, flag tokens such
\* as --contacts followed by several values included, tokenizing the line
\* made of the quoted tokens joined with spaces gives the sequence back.
C15_RoundTrip ==
    (out.op = "tokenize_input" /\ cmd # <<>> /\ orig = join_with_quoting(cmd))
    => out.result = Ok(cmd)


\* C16: tokenize_input, and so CommandArgs::parse, returns an error for a
\* line in which a quote, double or single, is opened and never closed.
C16_UnclosedQuoteIsError ==
    (/\ out.op \in {"tokenize_input", "CommandArgs::parse"}
     /\ \E l \in RawLines : l.text = orig /\ l.unclosed)
    => ~out.result.ok


IsFlagToken(t) == StartsWith(t, "--")

\* the flags a line of bare tokens is said to give: every token after the
\* command that begins with '--' is a key, without the marker; its value is
\* the token after it unless that one is a flag too (the last occurrence of
\* a key counts, as in a map)
SaidFlags(tokens) ==
    LET at == {i \in 2..Len(tokens) : IsFlagToken(tokens[i])}
        lastAt(k) == Max({i \in at : From(tokens[i], 3) = k})
    IN  [k \in {From(tokens[i], 3) : i \in at} |->
            IF lastAt(k) < Len(tokens) /\ ~IsFlagToken(tokens[lastAt(k) + 1])
            THEN Some(tokens[lastAt(k) + 1]) ELSE None]

\* the tokens are written bare: none holds a space, the first is a command
BareLine == /\ cmd # <<>>
            /\ orig = Join(cmd, " ")
            /\ \A i \in 1..Len(cmd) : ~Contains(cmd[i], " ")
            /\ ~IsFlagToken(cmd[1])

\* C17: every token of the line that begins with '--' becomes a key of the
\* flags, without the '--'; its value is the next token when that is not a
\* flag, none otherwise; no flag token is dropped or taken for a value.
C17_FlagsFromTokens ==
    (out.op = "CommandArgs::parse" /\ BareLine)
    => /\ out.result.ok
       /\ out.result.val.flags = SaidFlags(cmd)


JoiningFlags == {"--location", "--notes", "--email", "--contacts"}

\* a token without the double quotes around it, if it has them
Unquoted(t) ==
    IF Len(t) >= 2 /\ StartsWith(t, "\"") /\ Char(t, Len(t)) = "\""
    THEN SubSeq(t, 2, Len(t) - 1) ELSE t

\* what the post-processing pass is said to give for tokens without quote
\* characters, from token i on: after one of the four flags the tokens up to
\* the next flag or the end become one token, joined with single spaces
RECURSIVE SaidPostprocessFrom(_, _)
SaidPostprocessFrom(tokens, i) ==
    IF i > Len(tokens) THEN <<>>
    ELSE IF tokens[i] \in JoiningFlags
    THEN LET flagsAt == {k \in (i + 1)..Len(tokens) : IsFlagToken(tokens[k])}
             j == IF flagsAt = {} THEN Len(tokens) + 1 ELSE Min(flagsAt)
         IN  (IF j > i + 1 THEN <<tokens[i], Join(SubSeq(tokens, i + 1, j - 1), " ")>>
              ELSE <<tokens[i]>>) \o SaidPostprocessFrom(tokens, j)
    ELSE <<tokens[i]>> \o SaidPostprocessFrom(tokens, i + 1)

\* C18: in the post-processing pass, after each of --location, --notes,
\* --email and --contacts (next token not quoted) the tokens up to the next
\* '--' token or the end are joined with single spaces into one value
\* token, in quotes or not; the other tokens are left as they are.
C18_FlagValuesJoined ==
    (out.op = "postprocess_flags" /\ cmd # <<>>)
    => /\ Len(out.result) = Len(SaidPostprocessFrom(cmd, 1))
       /\ \A i \in 1..Len(out.result) :
              Unquoted(out.result[i]) = SaidPostprocessFrom(cmd, 1)[i]


(***************************************************************************)
(* CommandProcessor::execute on its own: it is handed arguments under a    *)
(* command name, one that some handler accepts or one that none does, and  *)
(* the handler it invokes, if any, returns Ok or Err.                      *)
(***************************************************************************)
HandledNames == UNION {Handlers[i].can_handle : i \in 1..Len(Handlers)}

DispatchNames == HandledNames \cup {"frobnicate", "", "Calendar", "cal", "todo list"}

DispatchArgs == {<<>>, <<"list">>, <<"create", "Buy Milk">>}

InitDispatch ==
    /\ \E name \in DispatchNames, args \in DispatchArgs :
           cmd = CommandArgs_new(name, args, NoFlags)
    /\ orig = ""
    /\ out = NoOut
    /\ CacheIdle
    /\ NlIdle
    /\ AppIdle

Execute ==
    /\ out = NoOut
    /\ \E outcome \in {"Ok", "Err"} :
       \E r \in {Executed(Request("execute", ""), "direct", cmd, outcome)} :
           out' = [op |-> "execute", outcome |-> outcome,
                   invoked |-> r.invoked, result |-> r.result]
    /\ UNCHANGED <<cmd, orig, cacheVars, nlVars, appVars>>

NextDispatch == Execute

SpecDispatch == InitDispatch /\ [][NextDispatch]_vars

\* the handlers that can handle the command name, by their place in the
\* order of registration
Able == {i \in 1..Len(Handlers) : cmd.command \in Handlers[i].can_handle}

\* C19: when some handler can handle the command name, execute invokes
\* exactly one handler, the first in registration order that can, and what
\* that handler returns, Ok or Err, is what execute returns (ExitHandler
\* ends the process and returns nothing).
C19_FirstHandlerOnly ==
    (out.op = "execute" /\ Able # {})
    => /\ out.invoked = <<Handlers[Min(Able)].name>>
       /\ out.invoked # <<"ExitHandler">> => out.result = out.outcome

\* TodoHandler has been invoked, alone, and its error has been returned
C19_Witness ==
    /\ out.op = "execute"
    /\ cmd.command = "todos"
    /\ out.invoked = <<"TodoHandler">>
    /\ out.outcome = "Err"
    /\ out.result = "Err"

\* C20: when no handler can handle the command name, execute invokes no
\* handler and returns Ok.
C20_UnknownCommandIsOk ==
    (out.op = "execute" /\ Able = {}) => out.invoked = <<>> /\ out.result = "Ok"

\* 'frobnicate' has been dispatched: nothing invoked, Ok returned
C20_Witness ==
    /\ out.op = "execute"
    /\ cmd.command = "frobnicate"
    /\ out.invoked = <<>>
    /\ out.result = "Ok"


(***************************************************************************)
(* Concurrent calls of parse_natural_language on the one RESPONSE_CACHE.   *)
(* Each call runs on its own task; the steps of different calls            *)
(* interleave.  RESPONSE_CACHE.lock() is a step of its own, so that the    *)
(* states in which the lock is held are states of the model; the guard is  *)
(* dropped where get_cached_response and store_response return.  Here pc   *)
(* gives each call's place and nl the lock and each call's data.           *)
(***************************************************************************)
MaxTasks == 2

Tasks == 1..MaxTasks

TaskInputs == {"lunch with Ann", "standup"}

TaskReplies == {"ducktape calendar create \"L\" 2024-05-01 12:00 13:00",
                "ducktape todo create \"L\""}

\* the places where a call is suspended at an .await
AwaitPoints == {"calendars", "request", "response"}

\* the places where a call is inside get_cached_response or store_response,
\* past RESPONSE_CACHE.lock()
InCache == {"get", "put"}

InitLock ==
    /\ cmd = "" /\ orig = "" /\ out = NoOut
    /\ CacheIdle
    /\ AppIdle
    /\ pc = [t \in Tasks |-> "idle"]
    /\ nl = [lock |-> 0,
             input |-> [t \in Tasks |-> ""],
             reply |-> [t \in Tasks |-> ""],
             result |-> [t \in Tasks |-> None]]

LockFrame == UNCHANGED <<pureVars, hist, last, appVars>>

\* parse_natural_language is called, up to its call of get_cached_response
BeginParse(t) ==
    /\ pc[t] = "idle"
    /\ \E input \in TaskInputs :
           nl' = [nl EXCEPT !.input[t] = sanitize_user_input(input)]
    /\ pc' = [pc EXCEPT ![t] = "get_lock"]
    /\ UNCHANGED cache
    /\ LockFrame

\* RESPONSE_CACHE.lock() in get_cached_response or store_response: the call
\* waits while another holds the lock
LockCache(t) ==
    /\ pc[t] \in {"get_lock", "put_lock"}
    /\ nl.lock = 0
    /\ nl' = [nl EXCEPT !.lock = t]
    /\ pc' = [pc EXCEPT ![t] = IF pc[t] = "get_lock" THEN "get" ELSE "put"]
    /\ UNCHANGED cache
    /\ LockFrame

\* get_cached_response with the guard kept by the caller until the call ends
GetCached_KeepsLock(t) ==
    /\ pc[t] = "get"
    /\ \E r \in {get_cached_response(cache, nl.input[t])} :
           /\ cache' = r.entries
           /\ nl' = [nl EXCEPT !.result[t] = IF r.ret # None THEN Some(Ok(r.ret[1]))
                                             ELSE None]
           /\ pc' = [pc EXCEPT ![t] = AfterLookup(r.ret).pc]
    /\ LockFrame

\* get_cached_response past the lock: cache.get(input).cloned(), the guard
\* dropped on return; a hit is returned by parse_natural_language at once
GetCached(t) ==
    /\ pc[t] = "get"
    /\ \E r \in {get_cached_response(cache, nl.input[t])} :
           /\ cache' = r.entries
           /\ nl' = [nl EXCEPT !.lock = 0,
                               !.result[t] = IF r.ret # None THEN Some(Ok(r.ret[1]))
                                             ELSE None]
           /\ pc' = [pc EXCEPT ![t] = AfterLookup(r.ret).pc]
    /\ LockFrame

\* get_available_calendars().await completes
AwaitCalendars(t) ==
    /\ pc[t] = "calendars"
    /\ pc' = [pc EXCEPT ![t] = "request"]
    /\ UNCHANGED <<cache, nl>>
    /\ LockFrame

\* client.post(..).send().await completes, with a response or an error
AwaitSend(t) ==
    /\ pc[t] = "request"
    /\ \E sent \in BOOLEAN :
           IF sent THEN /\ pc' = [pc EXCEPT ![t] = "response"]
                        /\ UNCHANGED nl
           ELSE /\ pc' = [pc EXCEPT ![t] = "finish"]
                /\ nl' = [nl EXCEPT !.result[t] = Some(Err("transport"))]
    /\ UNCHANGED cache
    /\ LockFrame

\* response.json().await completes; the content is there
AwaitBody(t) ==
    /\ pc[t] = "response"
    /\ \E content \in TaskReplies : nl' = [nl EXCEPT !.reply[t] = Trim(content)]
    /\ pc' = [pc EXCEPT ![t] = "put_lock"]
    /\ UNCHANGED cache
    /\ LockFrame

\* store_response past the lock: cache.put(input, response), the guard
\* dropped on return; enhancement and validation follow without an await
StoreCached(t) ==
    /\ pc[t] = "put"
    /\ cache' = store_response(cache, nl.input[t], nl.reply[t]).entries
    /\ \E enhanced \in {EnhanceChain(nl.reply[t], nl.input[t])} :
           nl' = [nl EXCEPT !.lock = 0,
                            !.result[t] = Some(IF validate_calendar_command(enhanced) = "Ok"
                                               THEN Ok(enhanced)
                                               ELSE Err(validate_calendar_command(enhanced)))]
    /\ pc' = [pc EXCEPT ![t] = "finish"]
    /\ LockFrame

NextLock ==
    \E t \in Tasks :
        \/ BeginParse(t) \/ LockCache(t) \/ GetCached(t) \/ AwaitCalendars(t)
        \/ AwaitSend(t) \/ AwaitBody(t) \/ StoreCached(t)

SpecLock == InitLock /\ [][NextLock]_vars

\* C23: the cache lock is held only inside one get_cached_response or
\* store_response, never by a call that is suspended at an await, so a call
\* waiting for the provider keeps no other call out of the cache.
C23_LockNotHeldAcrossAwait ==
    /\ \A t \in Tasks : pc[t] \in AwaitPoints => nl.lock # t
    /\ nl.lock # 0 => pc[nl.lock] \in InCache

\* one call is waiting for the provider's response while another is inside
\* the cache, holding the lock
C23_Witness ==
    \E t, u \in Tasks :
        /\ t # u
        /\ pc[t] = "response"
        /\ pc[u] \in InCache
        /\ nl.lock = u


(***************************************************************************)
(* sanitize_nlp_command on its own: parser::utils::sanitize_nlp_command,   *)
(* the one Application::process_natural_language calls, and the copy in    *)
(* parser::openai::utils.                                                  *)
(***************************************************************************)
\* parser::openai::utils::sanitize_nlp_command
openai_sanitize_nlp_command(command) ==
    Bind(ReplaceEach(command, << <<Nbsp, " ">>, <<"\"\"", "\"">> >>),
         LAMBDA cleaned :
             IF ~StartsWith(cleaned, "ducktape") THEN "ducktape " \o cleaned ELSE cleaned)

SanitizePrefixes == {"", "ducktape ", "ducktape" \o Nbsp}

SanitizeBodies ==
    {"calendar create \"Meeting\"",
     "calendar create \"\"Meeting\"\"",
     "create a meeting tomorrow at 3pm",
     "calendar create \"Schedule a meeting with Bob\" 2025-01-01 10:00 11:00",
     "calendar create \"Sync\" 2025-01-01 10:00 11:00 --notes \"create event page\"",
     "create an event test tonight at 10pm",
     "schedule a meeting called Sync tomorrow",
     "todo create \"Buy milk\"",
     "note add \"event schedule\"",
     "calendar list"}

SanitizeSuffixes == {"", " --zoom"}

SanitizeCommands ==
    {p \o b \o s : p \in SanitizePrefixes, b \in SanitizeBodies, s \in SanitizeSuffixes}

InitSanitize ==
    /\ cmd \in SanitizeCommands
    /\ orig = ""
    /\ out = NoOut
    /\ CacheIdle
    /\ NlIdle
    /\ AppIdle

SanitizeNlpCommand ==
    /\ out = NoOut
    /\ \E r \in {sanitize_nlp_command(cmd)} :
           out' = [op |-> "sanitize_nlp_command", result |-> r]
    /\ UNCHANGED <<cmd, orig, cacheVars, nlVars, appVars>>

OpenAiSanitizeNlpCommand ==
    /\ out = NoOut
    /\ \E r \in {openai_sanitize_nlp_command(cmd)} :
           out' = [op |-> "openai::sanitize_nlp_command", result |-> r]
    /\ UNCHANGED <<cmd, orig, cacheVars, nlVars, appVars>>

NextSanitize == SanitizeNlpCommand \/ OpenAiSanitizeNlpCommand

SpecSanitize == InitSanitize /\ [][NextSanitize]_vars

\* the three edits: non-breaking spaces to spaces, doubled double quotes to
\* one, 'ducktape ' put in front of a text that does not start with it
OnlyNormalized(command) ==
    LET cleaned == Replace(Replace(command, Nbsp, " "), "\"\"", "\"")
    IN  IF StartsWith(cleaned, "ducktape") THEN cleaned ELSE "ducktape " \o cleaned

\* C24: sanitize_nlp_command only normalizes: non-breaking spaces become
\* spaces, doubled double quotes one, 'ducktape ' is put in front when it
\* is missing, and nothing else of the text changes.
C24_OnlyNormalizes ==
    out.op \in {"sanitize_nlp_command", "openai::sanitize_nlp_command"}
    => out.result = OnlyNormalized(cmd)


(***************************************************************************)
(* zoom::calculate_meeting_duration on pairs of time texts.                *)
(***************************************************************************)
\* a run of one or two digits at the start of s: its value and what follows
\* it, None when s does not start with a digit
TwoDigits(s) ==
    IF ~IsDigit(Char(s, 1)) THEN None
    ELSE IF IsDigit(Char(s, 2))
    THEN Some([val |-> 10 * DigitVal(Char(s, 1)) + DigitVal(Char(s, 2)), rest |-> From(s, 3)])
    ELSE Some([val |-> DigitVal(Char(s, 1)), rest |-> From(s, 2)])

\* NaiveTime::from_hms_opt : the seconds since midnight, None when a field
\* is out of range
from_hms_opt(hour, min, sec) ==
    IF hour < 24 /\ min < 60 /\ sec < 60 THEN Some(3600 * hour + 60 * min + sec) ELSE None

\* NaiveTime::parse_from_str(s, "%H:%M")
NaiveTime_parse_from_str(s) ==
    LET h == TwoDigits(s)
        m == IF h # None /\ StartsWith(h[1].rest, ":") THEN TwoDigits(Tail(h[1].rest)) ELSE None
    IN  IF h = None \/ m = None THEN None
        ELSE IF m[1].rest # "" THEN None
        ELSE from_hms_opt(h[1].val, m[1].val, 0)

\* Option::unwrap on None
Panicked == [ok |-> FALSE, val |-> "panicked: called Option::unwrap() on a None value"]

\* calculate_meeting_duration
calculate_meeting_duration(start_time, end_time) ==
    LET start == NaiveTime_parse_from_str(start_time)
        end   == NaiveTime_parse_from_str(end_time)
    IN  IF start = None THEN Err("Invalid start time format")
        ELSE IF end = None THEN Err("Invalid end time format")
        ELSE IF end[1] > start[1] THEN Ok(Max({(end[1] - start[1]) \div 60, 15}))
        ELSE IF from_hms_opt(0, 0, 0) = None \/ from_hms_opt(24, 0, 0) = None THEN Panicked
        ELSE Ok(Max({((end[1] - from_hms_opt(0, 0, 0)[1])
                          + (from_hms_opt(24, 0, 0)[1] - start[1])) \div 60, 15}))

DurationHours == {"00", "09", "14", "23"}
DurationMinutes == {"00", "10", "30", "40", "59"}

ValidTimes == {h \o ":" \o m : h \in DurationHours, m \in DurationMinutes}

OtherTimes == {"", "noon", "24:00", "10:60"}

InitDuration ==
    /\ cmd \in ValidTimes \cup OtherTimes
    /\ orig \in ValidTimes \cup OtherTimes
    /\ out = NoOut
    /\ CacheIdle
    /\ NlIdle
    /\ AppIdle

\* calculate_meeting_duration(start_time, end_time), cmd the start and orig
\* the end
CalculateMeetingDuration ==
    /\ out = NoOut
    /\ \E r \in {calculate_meeting_duration(cmd, orig)} :
           out' = [op |-> "calculate_meeting_duration", result |-> r]
    /\ UNCHANGED <<cmd, orig, cacheVars, nlVars, appVars>>

NextDuration == CalculateMeetingDuration

SpecDuration == InitDuration /\ [][NextDuration]_vars

\* the minutes since midnight of a valid HH:MM text
MinutesOf(t) ==
    60 * (10 * DigitVal(Char(t, 1)) + DigitVal(Char(t, 2)))
        + 10 * DigitVal(Char(t, 4)) + DigitVal(Char(t, 5))

\* the minutes from start to end, the end on the next day when it is not
\* later than the start
MinutesBetween(start, end) ==
    IF MinutesOf(end) > MinutesOf(start) THEN MinutesOf(end) - MinutesOf(start)
    ELSE MinutesOf(end) + 24 * 60 - MinutesOf(start)

\* C25: for valid HH:MM times calculate_meeting_duration returns
\* Ok(max(15, d)), d the minutes from start to end with the end on the next
\* day when it is not later than the start; it never panics.
C25_DurationAcrossMidnight ==
    (/\ out.op = "calculate_meeting_duration"
     /\ cmd \in ValidTimes
     /\ orig \in ValidTimes)
    => out.result = Ok(Max({15, MinutesBetween(cmd, orig)}))


(***************************************************************************)
(* CalendarHandler::execute on its own: the arguments come from a line     *)
(* parsed the way Application::process_command parses it without a         *)
(* provider (the clap grammar first, the legacy parser when clap refuses), *)
(* or are handed over directly under one of the names can_handle accepts.  *)
(***************************************************************************)
\* CalendarHandler::execute : the arm of its match that runs
CalendarHandler_execute(args) ==
    LET first == IF Len(args.args) > 0 THEN Some(args.args[1]) ELSE None
    IN  IF first = Some("create")
        THEN (IF Len(args.args) < 5 THEN "usage" ELSE "create_event")
        ELSE IF first = Some("list") THEN "list_calendars"
        ELSE IF (first = Some("props") \/ first = None) /\ args.command = "calendar-props"
        THEN "list_event_properties"
        ELSE IF first = Some("show") THEN "show"
        ELSE "unknown"

CalendarLines ==
    {"ducktape calendar props", "calendar props", "ducktape calendar properties",
     "ducktape calendar-props", "calendar-props", "calendar-props props",
     "ducktape calendar list", "calendars", "calendar show", "calendar",
     "ducktape calendar create \"Sync\" 2025-01-01 10:00 11:00",
     "calendar create \"Sync\"", "calendars props", "calendar props --zoom",
     "Calendar Props", "calendar-props list"}

CalendarNames == {"calendar", "calendars", "calendar-props"}

CalendarArgs ==
    {<<>>, <<"props">>, <<"props", "all">>, <<"properties">>, <<"list">>, <<"show">>,
     <<"create">>, <<"create", "Sync", "2025-01-01", "10:00", "11:00">>, <<"Props">>,
     <<"delete">>, <<"list", "props">>, <<"show", "Work">>}

NotParsed == [command |-> "", args |-> <<>>, flags |-> NoFlags, from |-> "none"]

InitCalendar ==
    /\ \/ /\ orig \in CalendarLines
          /\ cmd = NotParsed
       \/ /\ orig = ""
          /\ \E name \in CalendarNames, args \in CalendarArgs :
                 cmd = CommandArgs_new(name, args, NoFlags) @@ [from |-> "direct"]
    /\ out = NoOut
    /\ CacheIdle
    /\ NlIdle
    /\ AppIdle

\* Application::process_command without a provider, up to the arguments:
\* preprocess_input, then parse_command_string, then CommandArgs::parse
ParseLine ==
    /\ cmd = NotParsed /\ orig # ""
    /\ \E text \in {preprocess_input(orig)} :
       \E clap \in {parse_command_string(text)} :
           IF clap.ok THEN cmd' = clap.val @@ [from |-> "clap"]
           ELSE \E legacy \in {CommandArgs_parse(text)} :
                    cmd' = IF legacy.ok THEN legacy.val @@ [from |-> "legacy"]
                           ELSE [NotParsed EXCEPT !.from = "error"]
    /\ UNCHANGED <<orig, out, cacheVars, nlVars, appVars>>

\* CalendarHandler::execute, reached through CommandProcessor::execute
CalendarExecute ==
    /\ out = NoOut
    /\ cmd.command \in Handlers[1].can_handle
    /\ \E ran \in {CalendarHandler_execute(cmd)} :
           out' = [op |-> "CalendarHandler::execute", ran |-> ran]
    /\ UNCHANGED <<cmd, orig, cacheVars, nlVars, appVars>>

NextCalendar == ParseLine \/ CalendarExecute

SpecCalendar == InitCalendar /\ [][NextCalendar]_vars

\* C26: CalendarHandler lists the event properties when the command is
\* 'calendar-props' without positionals and when it is 'calendar' with the
\* first positional 'props', the form the clap grammar gives for
\* 'calendar props'.
C26_PropsListsProperties ==
    (/\ out.op = "CalendarHandler::execute"
     /\ \/ cmd.command = "calendar-props" /\ cmd.args = <<>>
        \/ cmd.command = "calendar" /\ Len(cmd.args) > 0 /\ cmd.args[1] = "props")
    => out.ran = "list_event_properties"


\* C27: every command text parse_natural_language returns as Ok, made from
\* a fresh reply or taken from the cache, passes validate_calendar_command;
\* a reply that failed validation is not returned as Ok by a later call.
C27_OkIsValidated ==
    (Called /\ nl.pnl # None /\ nl.pnl[1].ok)
    => validate_calendar_command(nl.pnl[1].val) = "Ok"

\* what the call that stored a reply under an input returned for it
ReturnedWhenStored(reply, sanitized_input) ==
    LET enhanced == EnhanceChain(reply, sanitized_input)
        verdict == validate_calendar_command(enhanced)
    IN  IF verdict = "Ok" THEN Ok(enhanced) ELSE Err(verdict)

\* C28: a call answered from the cache returns exactly what the call that
\* put the reply there returned for the same input: the same flags added,
\* the same end time repaired.
C28_CacheHitSameAsFirst ==
    (Called /\ nl.hit /\ nl.pnl # None)
    => nl.pnl[1] = ReturnedWhenStored(Peek(nl.cache0, nl.sanitized)[1], nl.sanitized)


\* the number of places where p occurs in s
Occurrences(s, p) == Cardinality({i \in 1..Len(s) : At(s, i, p)})

\* C29: when the recurrence stage adds both flags because the text holds
\* 'every N <unit>s', the --repeat it adds is the one of <unit>, whatever
\* other words the text holds; and the stage never adds a second --repeat
\* or --interval.
C29_RepeatMatchesUnit ==
    (out.op = "recurrence" /\ Contains(out.before, "calendar create"))
    => /\ (EveryHits(out.before) # {} /\ ~HasRecurrenceFlags(out.before))
              => /\ Contains(out.after,
                             "--repeat " \o RepeatOf(EveryCaptures(out.before).unit))
                 /\ Contains(out.after,
                             "--interval " \o EveryCaptures(out.before).interval)
       /\ \A flag \in {"--repeat", "--interval"} :
              Occurrences(out.after, flag) <= Max({1, Occurrences(out.before, flag)})


(***************************************************************************)
(* One WebSocket connection of the API server (api_server/websocket.rs).   *)
(* A message is given by the frame it comes in and by what                 *)
(* serde_json::from_str::<SwiftMessage> makes of its text: no JSON of that *)
(* shape, or the four optional fields.  Here pc is the place of            *)
(* handle_socket (waiting in its select!, or inside process_message) and   *)
(* nl the connection: the messages received so far, the last one, the      *)
(* responses sent for it, and which messages were answered.  Sending on    *)
(* the socket succeeds while the connection is open.                       *)
(***************************************************************************)
MaxMessages == 2

WsFrames == {"text", "binary"}

\* what the text of a message deserializes to
WsPayloads ==
    {[json |-> FALSE, content |-> None, message_type |-> None, action |-> None, data |-> None]}
    \cup {[json |-> TRUE, content |-> Some(c), message_type |-> Some("chat"), action |-> None,
           data |-> None] :
            c \in {"hello there", "schedule a meeting called Sync",
                   "ducktape calendar list", "calendar import",
                   "ducktape calendar create \"Sync\" 2025-01-01 10:00 11:00",
                   "note add \"oops"}}
    \cup {[json |-> TRUE, content |-> None, message_type |-> Some(t), action |-> Some(a),
           data |-> Some(d)] :
            t \in {"create", "chat"}, a \in {"event"}, d \in {"event data", "other data"}}
    \cup {[json |-> TRUE, content |-> None, message_type |-> None, action |-> None,
           data |-> None],
          [json |-> TRUE, content |-> None, message_type |-> Some("create"),
           action |-> Some("event"), data |-> None]}

CommandWords ==
    {"create", "add", "schedule", "set", "make", "remind", "note", "meeting", "event",
     "calendar", "todo", "zoom", "invite", "tomorrow", "today", "monday", "tuesday",
     "wednesday", "thursday", "friday", "saturday", "sunday", "am", "pm"}

\* websocket::is_command_message
is_command_message(message) ==
    Bind(ToLower(message), LAMBDA lower : \E word \in CommandWords : Contains(lower, word))

\* handle_websocket_command, with handle_calendar_create and
\* handle_calendar_import : the message_type of the one response it sends;
\* outcome is what create_event or the import gives
handle_websocket_command(args, outcome) ==
    IF args.command # "calendar" THEN <<"chat">>
    ELSE IF Len(args.args) = 0 THEN <<"error">>
    ELSE IF args.args[1] = "create"
    THEN (IF Len(args.args) >= 4 /\ outcome = "Ok" THEN <<"chat">> ELSE <<"error">>)
    ELSE IF args.args[1] = "import"
    THEN (IF Len(args.args) >= 2 /\ outcome = "Ok" THEN <<"chat">> ELSE <<"error">>)
    ELSE <<"chat">>

\* handle_parsed_command : the clap grammar, then the legacy parser
handle_parsed_command(command, outcome) ==
    Bind(parse_command_string(command),
         LAMBDA structured :
             IF structured.ok THEN handle_websocket_command(structured.val, outcome)
             ELSE Bind(CommandArgs_parse(command),
                       LAMBDA legacy :
                           IF legacy.ok THEN handle_websocket_command(legacy.val, outcome)
                           ELSE <<"error">>))

\* process_message for a content that is_command_message accepts
ProcessCommandMessage(content, provider, key, outcome) ==
    IF ~create_parser(provider, key).ok THEN <<"error">>
    ELSE Bind(parse_input(create_parser(provider, key).val, content, key),
              LAMBDA parsed :
                  IF ~parsed.ok THEN <<"error">>
                  ELSE IF parsed.val.kind = "CommandString"
                  THEN handle_parsed_command(parsed.val.val, outcome)
                  ELSE handle_websocket_command(parsed.val.val, outcome))

\* websocket::process_message : the message_type of each response it sends,
\* in order
process_message(m, provider, key, outcome) ==
    IF ~m.json THEN <<"error">>
    ELSE IF m.content # None
    THEN (IF is_command_message(m.content[1])
          THEN ProcessCommandMessage(m.content[1], provider, key, outcome)
          ELSE <<"chat">>)
    ELSE IF m.message_type # None /\ m.action # None /\ m.data # None
    THEN (IF m.message_type[1] = "create" /\ m.action[1] = "event"
          THEN (IF m.data[1] = "event data" THEN <<"event">> ELSE <<"error">>)
          ELSE <<"error">>)
    ELSE <<>>

\* handle_socket has sent its welcome message and waits in select!
InitSocket ==
    /\ cmd = "" /\ orig = "" /\ out = NoOut
    /\ CacheIdle
    /\ AppIdle
    /\ pc = "select"
    /\ \E provider \in Providers, key \in BOOLEAN :
           nl = [n |-> 0, provider |-> provider, key |-> key, msg |-> None,
                 sent |-> <<>>, answered |-> {}]

SocketFrame == UNCHANGED <<pureVars, cacheVars, appVars>>

\* socket.recv() gives a text message, or a binary one that is UTF-8
Recv ==
    /\ pc = "select"
    /\ nl.n < MaxMessages
    /\ \E frame \in WsFrames, payload \in WsPayloads :
           nl' = [nl EXCEPT !.n = @ + 1, !.msg = Some(payload @@ [frame |-> frame]),
                            !.sent = <<>>]
    /\ pc' = "process_message"
    /\ SocketFrame

\* socket.recv() gives a binary message that is not UTF-8: the error
\* response is sent from handle_socket itself
RecvUndecodable ==
    /\ pc = "select"
    /\ nl.n < MaxMessages
    /\ nl' = [nl EXCEPT !.n = @ + 1, !.msg = None, !.sent = <<"error">>,
                        !.answered = @ \cup {nl.n + 1}]
    /\ UNCHANGED pc
    /\ SocketFrame

\* process_message runs to its end and handle_socket is back in select!
ProcessMessage ==
    /\ pc = "process_message"
    /\ \E outcome \in {"Ok", "Err"} :
       \E responses \in {process_message(nl.msg[1], nl.provider, nl.key, outcome)} :
           nl' = [nl EXCEPT !.sent = responses,
                            !.answered = IF responses # <<>> THEN @ \cup {nl.n} ELSE @]
    /\ pc' = "select"
    /\ SocketFrame

\* a Close frame, a receive error, the end of the stream or a failed ping
\* ends the loop
CloseSocket ==
    /\ pc = "select"
    /\ pc' = "closed"
    /\ UNCHANGED nl
    /\ SocketFrame

NextSocket == Recv \/ RecvUndecodable \/ ProcessMessage \/ CloseSocket

\* process_message, once called, runs to its end: its awaits all complete
SpecSocket == InitSocket /\ [][NextSocket]_vars /\ WF_vars(ProcessMessage)

\* C30: every text or UTF-8 binary message the server receives on a
\* connection is eventually answered with at least one response, whatever
\* JSON shape it has.
C30_EveryMessageAnswered ==
    \A i \in 1..MaxMessages : (nl.n >= i) ~> (i \in nl.answered)

=============================================================================
